---- MODULE Spec2Model ----
(***************************************************************************)
(* A model of the MySQL -> SmartSuite synchronisation engine:              *)
(*   sync_engine.py   SyncEngine.sync / SyncEngine._sync_record            *)
(*   state_manager.py StateManager (sync_runs, record_mappings,            *)
(*                    sync_metadata, calculate_hash)                       *)
(*   config_loader.py SyncConfig.map_record and the field converters it    *)
(*                    reaches for the configurations modelled here         *)
(* The two collaborators (MySQLClient.execute_query and the SmartSuite     *)
(* create/update calls) are environments: they return or raise.            *)
(***************************************************************************)
EXTENDS Integers, Sequences, FiniteSets, TLC

(***************************************************************************)
(* Bounds of the model.                                                    *)
(***************************************************************************)
MaxBatch == 2
MaxRuns == 2
MaxClock == 1
MaxFaults == 1
MaxDefinitions == 2

(***************************************************************************)
(* Python values.  A value is a tagged record; v is the text of the value. *)
(***************************************************************************)
None == [t |-> "none"]

IntVal(s) == [t |-> "int", v |-> s]

StrVal(s) == [t |-> "str", v |-> s]

BoolVal(b) == [t |-> "bool", b |-> b]

\* decimal.Decimal(s), bytes, datetime.date and datetime.datetime values, lists
\* and dicts (a dict is the sequence of its <<key, value>> pairs, in insertion
\* order).
DecimalVal(s) == [t |-> "decimal", v |-> s]

BytesVal(s) == [t |-> "bytes", v |-> s]

DateVal(d) == [t |-> "date", date |-> d]

DateTimeVal(d, tm) == [t |-> "datetime", date |-> d, time |-> tm]

ListVal(items) == [t |-> "list", items |-> items]

DictVal(items) == [t |-> "dict", items |-> items]

\* Texts that float() accepts, among the texts of the model.
NumericText == {"1", "2", "3", "5", "7"}

\* {}: a mapping with no key.
EmptyMap == [x \in {} |-> x]

\* A call either returns a value or raises.
Ok(v) == [ok |-> TRUE, val |-> v]

Raise(e) == [ok |-> FALSE, exc |-> e]

\* str(value)
PyStr(value) ==
    CASE value.t = "none" -> "None"
      [] value.t = "bool" -> IF value.b THEN "True" ELSE "False"
      [] value.t = "date" -> value.date
      [] value.t = "datetime" -> value.date \o " " \o value.time
      [] value.t = "bytes" -> "b'" \o value.v \o "'"
      [] value.t = "list" /\ value.items = <<>> -> "[]"
      [] value.t = "dict" /\ value.items = <<>> -> "{}"
      [] OTHER -> value.v

\* str(float(value)): the integers and integer texts of the model print as d.0
StrFloat(value) ==
    CASE value.t = "int" -> Ok(StrVal(value.v \o ".0"))
      [] value.t = "bool" -> Ok(StrVal(IF value.b THEN "1.0" ELSE "0.0"))
      [] value.t \in {"str", "bytes", "decimal"} /\ value.v \in NumericText ->
            Ok(StrVal(value.v \o ".0"))
      [] value.t \in {"str", "bytes"} ->
            Raise("ValueError: could not convert string to float")
      [] OTHER -> Raise("TypeError: float() argument must be a string or a number")

\* bool(value)
Truthy(value) ==
    CASE value.t = "none" -> FALSE
      [] value.t = "bool" -> value.b
      [] value.t \in {"int", "decimal"} -> value.v # "0"
      [] value.t \in {"str", "bytes"} -> value.v # ""
      [] value.t \in {"list", "dict"} -> value.items # <<>>
      [] OTHER -> TRUE

\* a or b
Or(a, b) == IF Truthy(a) THEN a ELSE b

\* s.lower(), for the texts of the model
Lower(s) ==
    CASE s = "Date" -> "date"
      [] s = "YesNo" -> "yesno"
      [] s = "NUMBER" -> "number"
      [] s = "PhoneField" -> "phonefield"
      [] s = "Yes" -> "yes"
      [] s = "TRUE" -> "true"
      [] OTHER -> s

\* value.isoformat() of a datetime, and of a date combined with midnight
isoformat(value) ==
    IF value.t = "datetime" THEN value.date \o "T" \o value.time
    ELSE value.date \o "T00:00:00"

\* datetime.fromisoformat(value.replace('Z', '+00:00')).isoformat(), for the
\* texts of the model that parse.
fromisoformat ==
    [x \in {"2024-01-02", "2024-01-02T03:04:05", "2024-01-02T03:04:05Z"} |->
        CASE x = "2024-01-02" -> "2024-01-02T00:00:00"
          [] x = "2024-01-02T03:04:05" -> "2024-01-02T03:04:05"
          [] OTHER -> "2024-01-02T03:04:05+00:00"]

\* Texts for which s.isdigit() holds, and int(s) for them: a superscript two
\* (written here by its code point) is a digit that int() does not accept.
DigitText == {"0", "1", "2", "5", "U+00B2"}

PyInt(s) ==
    IF s = "U+00B2" THEN Raise("ValueError: invalid literal for int() with base 10")
    ELSE Ok(IntVal(s))

(***************************************************************************)
(* Python dicts keep insertion order: a dict is a sequence of <<key,       *)
(* value>> pairs with distinct keys.                                       *)
(***************************************************************************)
Keys(d) == {d[i][1] : i \in 1..Len(d)}

Has(d, k) == k \in Keys(d)

Get(d, k) == d[CHOOSE i \in 1..Len(d) : d[i][1] = k][2]

\* d[k] = v
Put(d, k, v) ==
    IF Has(d, k)
    THEN [i \in 1..Len(d) |-> IF d[i][1] = k THEN <<k, v>> ELSE d[i]]
    ELSE Append(d, <<k, v>>)

(***************************************************************************)
(* config_loader.py: SmartSuiteFieldConverter                              *)
(***************************************************************************)
ArrayTypes ==
    {"multipleselectfield", "emailfield", "phonefield",
     "linkfield", "linkedrecordfield", "memberfield"}

EmptyList == [t |-> "list", items |-> <<>>]

\* {"date": d, "include_time": include_time}
DateObject(d, include_time) ==
    DictVal(<< <<"date", d>>, <<"include_time", BoolVal(include_time)>> >>)

_null_value_for_type(field_type) ==
    IF Lower(field_type) \in ArrayTypes THEN EmptyList
    ELSE IF Lower(field_type) = "yesno" THEN BoolVal(FALSE)
    ELSE IF Lower(field_type) \in {"number", "currency", "percent"} THEN StrVal("0")
    ELSE IF Lower(field_type) = "date" THEN DateObject(None, FALSE)
    ELSE StrVal("")

to_text(value) == Ok(StrVal(IF value.t # "none" THEN PyStr(value) ELSE ""))

to_textarea(value) == Ok(StrVal(IF value.t # "none" THEN PyStr(value) ELSE ""))

to_number(value) == IF value.t # "none" THEN StrFloat(value) ELSE Ok(StrVal("0"))

to_currency(value) == IF value.t # "none" THEN StrFloat(value) ELSE Ok(StrVal("0"))

to_percent(value) == IF value.t # "none" THEN StrFloat(value) ELSE Ok(StrVal("0"))

\* options.get('include_time', False)
IncludeTime(options) ==
    IF "include_time" \in DOMAIN options THEN options.include_time ELSE FALSE

\* options.get('value_map', {})
ValueMap(options) ==
    IF "value_map" \in DOMAIN options THEN options.value_map ELSE EmptyMap

\* to_date that tests isinstance(value, date) first: a datetime is a date.
to_date_as_date(value, options) ==
    LET include_time == IncludeTime(options)
    IN  CASE value.t = "none" -> Ok(DateObject(None, include_time))
          [] value.t \in {"date", "datetime"} ->
                Ok(DateObject(StrVal(value.date \o "T00:00:00"), include_time))
          [] value.t = "str" ->
                Ok(DateObject(StrVal(IF value.v \in DOMAIN fromisoformat
                                     THEN fromisoformat[value.v] ELSE value.v),
                              include_time))
          [] OTHER -> Ok(DateObject(StrVal(PyStr(value)), include_time))

to_date(value, options) ==
    LET include_time == IncludeTime(options)
    IN  CASE value.t = "none" -> Ok(DateObject(None, include_time))
          [] value.t = "datetime" -> Ok(DateObject(StrVal(isoformat(value)), TRUE))
          [] value.t = "date" -> Ok(DateObject(StrVal(isoformat(value)), include_time))
          [] value.t = "str" ->
                Ok(DateObject(StrVal(IF value.v \in DOMAIN fromisoformat
                                     THEN fromisoformat[value.v] ELSE value.v),
                              include_time))
          [] OTHER -> Ok(DateObject(StrVal(PyStr(value)), include_time))

\* to_single_select that indexes the value-map without testing membership.
to_single_select_strict(value, value_map) ==
    LET str_value == IF value.t # "none" THEN PyStr(value) ELSE ""
    IN  IF str_value \in DOMAIN value_map
        THEN Ok(StrVal(value_map[str_value]))
        ELSE Raise("KeyError")

to_single_select(value, value_map) ==
    LET str_value == IF value.t # "none" THEN PyStr(value) ELSE ""
    IN  IF str_value \in DOMAIN value_map
        THEN Ok(StrVal(value_map[str_value]))
        ELSE Ok(StrVal(str_value))

\* [str(v) for v in value if v is not None], or [str(value)]
SelectValues(value) ==
    LET NotNone(v) == v.t # "none"
        kept == SelectSeq(value.items, NotNone)
    IN  IF value.t = "list" THEN [i \in 1..Len(kept) |-> PyStr(kept[i])]
        ELSE <<PyStr(value)>>

to_multiple_select(value, value_map) ==
    IF value.t = "none" THEN Ok(EmptyList)
    ELSE LET values == SelectValues(value)
         IN  Ok(ListVal([i \in 1..Len(values) |->
                            StrVal(IF values[i] \in DOMAIN value_map
                                   THEN value_map[values[i]] ELSE values[i])]))

to_yesno(value) ==
    CASE value.t = "none" -> Ok(BoolVal(FALSE))
      [] value.t = "bool" -> Ok(value)
      [] value.t = "str" ->
            Ok(BoolVal(Lower(value.v) \in {"true", "yes", "1", "t", "y", "on"}))
      [] OTHER -> Ok(BoolVal(Truthy(value)))

\* [str(v) for v in value if v], or [str(value)] if value else []
StrList(value) ==
    LET kept == SelectSeq(value.items, Truthy)
    IN  CASE value.t = "none" -> EmptyList
          [] value.t = "list" -> ListVal([i \in 1..Len(kept) |-> StrVal(PyStr(kept[i]))])
          [] OTHER -> IF Truthy(value) THEN ListVal(<<StrVal(PyStr(value))>>) ELSE EmptyList

to_email(value) == Ok(StrList(value))

to_link(value) == Ok(StrList(value))

to_linked_record(value) == Ok(StrList(value))

to_assigned_to(value) == Ok(StrList(value))

\* phone_dict.get(key)
DictGet(phone_dict, key) ==
    IF Has(phone_dict.items, key) THEN Get(phone_dict.items, key) ELSE None

_create_phone_object(phone_number, country, phone_type) ==
    DictVal(<< <<"phone_country", country>>, <<"phone_number", StrVal(phone_number)>>,
               <<"phone_extension", StrVal("")>>, <<"phone_type", phone_type>> >>)

\* if isinstance(phone_type, str) and phone_type.isdigit(): int(phone_type);
\* elif not isinstance(phone_type, int): default_type
PhoneType(phone_type, default_type) ==
    IF phone_type.t = "str" /\ phone_type.v \in DigitText THEN PyInt(phone_type.v)
    ELSE IF phone_type.t \notin {"int", "bool"} THEN Ok(default_type)
    ELSE Ok(phone_type)

\* The dict _format_phone_object returns, unless int(phone_type) raised.
PhoneObject(country, phone_number, extension, phone_type) ==
    IF ~phone_type.ok THEN phone_type
    ELSE Ok(DictVal(<< <<"phone_country", country>>, <<"phone_number", phone_number>>,
                       <<"phone_extension",
                         IF Truthy(extension) THEN StrVal(PyStr(extension))
                         ELSE StrVal("")>>,
                       <<"phone_type", phone_type.val>> >>))

_format_phone_object(phone_dict, default_country, default_type) ==
    PhoneObject(
        Or(Or(DictGet(phone_dict, "phone_country"), DictGet(phone_dict, "country")),
           default_country),
        Or(Or(Or(DictGet(phone_dict, "phone_number"), DictGet(phone_dict, "number")),
              DictGet(phone_dict, "phone")),
           StrVal(PyStr(IF Has(phone_dict.items, "value")
                        THEN Get(phone_dict.items, "value") ELSE StrVal("")))),
        Or(Or(DictGet(phone_dict, "phone_extension"), DictGet(phone_dict, "extension")),
           StrVal("")),
        PhoneType(Or(Or(DictGet(phone_dict, "phone_type"), DictGet(phone_dict, "type")),
                     default_type),
                  default_type))

\* options.get('default_country', 'US') and options.get('default_type', 2)
DefaultCountry(options) ==
    IF "default_country" \in DOMAIN options THEN options.default_country ELSE StrVal("US")

DefaultType(options) ==
    IF "default_type" \in DOMAIN options THEN options.default_type ELSE IntVal("2")

\* What one element of the value adds to phones: the formatted dict, the
\* object made of a simple value, or nothing (None) for a value that is false.
PhoneOf(v, default_country, default_type) ==
    IF v.t = "dict" THEN _format_phone_object(v, default_country, default_type)
    ELSE IF Truthy(v)
    THEN Ok(_create_phone_object(PyStr(v), default_country, default_type))
    ELSE Ok(None)

\* phones.append(phone), unless an earlier element or this one raised.
AppendPhone(phones, phone) ==
    IF ~phones.ok THEN phones
    ELSE IF ~phone.ok THEN phone
    ELSE IF phone.val = None THEN phones
    ELSE Ok(Append(phones.val, phone.val))

\* The loop of to_phone over the first n elements of a list.
RECURSIVE PhoneItems(_, _, _, _)
PhoneItems(items, n, default_country, default_type) ==
    IF n = 0 THEN Ok(<<>>)
    ELSE AppendPhone(PhoneItems(items, n - 1, default_country, default_type),
                     PhoneOf(items[n], default_country, default_type))

\* The elements to_phone goes over: those of a list, or the single value
\* when it is true.
PhoneElements(value) ==
    IF value.t = "list" THEN value.items
    ELSE IF Truthy(value) THEN <<value>>
    ELSE <<>>

\* return phones
PhoneList(phones) == IF phones.ok THEN Ok(ListVal(phones.val)) ELSE phones

to_phone(value, options) ==
    IF value.t = "none" THEN Ok(EmptyList)
    ELSE PhoneList(PhoneItems(PhoneElements(value), Len(PhoneElements(value)),
                              DefaultCountry(options), DefaultType(options)))

\* The keys of the converters table.
ModelledTypes ==
    {"text", "textarea", "title", "number", "currency", "percent", "date",
     "singleselect", "multipleselectfield", "yesno", "emailfield", "phonefield",
     "linkfield", "linkedrecordfield", "memberfield"}

\* converters.get(field_type.lower()) applied to a value, or to_text
Converter(value, field_type, options) ==
    CASE Lower(field_type) \in {"text", "title"} -> to_text(value)
      [] Lower(field_type) = "textarea" -> to_textarea(value)
      [] Lower(field_type) = "number" -> to_number(value)
      [] Lower(field_type) = "currency" -> to_currency(value)
      [] Lower(field_type) = "percent" -> to_percent(value)
      [] Lower(field_type) = "date" -> to_date(value, options)
      [] Lower(field_type) = "singleselect" -> to_single_select(value, ValueMap(options))
      [] Lower(field_type) = "multipleselectfield" ->
            to_multiple_select(value, ValueMap(options))
      [] Lower(field_type) = "yesno" -> to_yesno(value)
      [] Lower(field_type) = "emailfield" -> to_email(value)
      [] Lower(field_type) = "phonefield" -> to_phone(value, options)
      [] Lower(field_type) = "linkfield" -> to_link(value)
      [] Lower(field_type) = "linkedrecordfield" -> to_linked_record(value)
      [] Lower(field_type) = "memberfield" -> to_assigned_to(value)
      [] OTHER -> to_text(value)

\* convert without the test of value is None: the converter gets the null.
convert_null_to_converter(value, field_type, options) ==
    Converter(value, field_type, options)

convert(value, field_type, options) ==
    IF value.t = "none" THEN Ok(_null_value_for_type(field_type))
    ELSE Converter(value, field_type, options)

(***************************************************************************)
(* config_loader.py: SyncConfig                                            *)
(***************************************************************************)
_auto_convert(value) ==
    CASE value.t = "none" -> None
      [] value.t = "decimal" -> StrFloat(value).val
      [] value.t = "datetime" -> DateObject(StrVal(isoformat(value)), TRUE)
      [] value.t = "date" -> DateObject(StrVal(isoformat(value)), FALSE)
      [] value.t = "bytes" -> StrVal(value.v)
      [] value.t = "bool" -> value
      [] OTHER -> StrVal(PyStr(value))

_legacy_transform(config, field_name, value) ==
    LET transform == config.transformations[field_name]
        transform_type == IF "type" \in DOMAIN transform THEN transform.type ELSE "none"
        r == CASE transform_type = "number" -> to_number(value)
               [] transform_type = "choice" ->
                    to_single_select(value,
                        IF "value_map" \in DOMAIN transform THEN transform.value_map ELSE EmptyMap)
               [] transform_type = "date" -> to_date(value, transform)
               [] OTHER -> Raise("falls through")
    IN  IF r.ok THEN r ELSE Ok(_auto_convert(value))

\* transform_value that consults the legacy transform before the typed rule.
transform_value_legacy_first(config, field_name, value) ==
    IF field_name \in DOMAIN config.transformations
    THEN _legacy_transform(config, field_name, value)
    ELSE IF field_name \in DOMAIN config.field_types
    THEN LET field_config == config.field_types[field_name]
             field_type == IF "type" \in DOMAIN field_config THEN field_config.type ELSE "text"
         IN  convert(value, field_type, field_config)
    ELSE Ok(_auto_convert(value))

transform_value(config, field_name, value) ==
    IF field_name \in DOMAIN config.field_types
    THEN LET field_config == config.field_types[field_name]
             field_type == IF "type" \in DOMAIN field_config THEN field_config.type ELSE "text"
         IN  convert(value, field_type, field_config)
    ELSE IF field_name \in DOMAIN config.transformations
    THEN _legacy_transform(config, field_name, value)
    ELSE Ok(_auto_convert(value))

\* The loop of map_record over the first n entries of field_mappings.
RECURSIVE MapFields(_, _, _)
MapFields(config, source_record, n) ==
    IF n = 0 THEN Ok(<<>>)
    ELSE LET sofar == MapFields(config, source_record, n - 1)
             source_field == config.field_mappings[n][1]
             smartsuite_field == config.field_mappings[n][2]
         IN  IF ~sofar.ok THEN sofar
             ELSE IF ~Has(source_record, source_field) THEN sofar
             ELSE LET transformed_value ==
                          transform_value(config, source_field, Get(source_record, source_field))
                  IN  IF ~transformed_value.ok THEN transformed_value
                      ELSE Ok(Put(sofar.val, smartsuite_field, transformed_value.val))

map_record(config, source_record) ==
    MapFields(config, source_record, Len(config.field_mappings))

(***************************************************************************)
(* state_manager.py: StateManager.calculate_hash.  SHA-256 is modelled as  *)
(* collision free: the digest is the canonical text it is taken of.        *)
(***************************************************************************)
\* The destination field names of the model, and the keys of date objects and
\* of phone entries, in lexical order (sort_keys).
SortedFieldNames ==
    <<"amount", "date", "due", "ext_id", "flag", "include_time", "note", "phone",
      "phone_country", "phone_extension", "phone_number", "phone_type", "status",
      "total">>

RECURSIVE JsonValue(_), JsonItems(_, _), JsonList(_, _)

\* json.dumps of a value: a dict with its keys sorted, a value json does not
\* know through default=str.
JsonValue(value) ==
    CASE value.t = "none" -> "null"
      [] value.t = "bool" -> IF value.b THEN "true" ELSE "false"
      [] value.t = "str" -> "\"" \o value.v \o "\""
      [] value.t = "int" -> value.v
      [] value.t = "list" -> "[" \o JsonList(value.items, Len(value.items)) \o "]"
      [] value.t = "dict" -> "{" \o JsonItems(value.items, Len(SortedFieldNames)) \o "}"
      [] OTHER -> "\"" \o PyStr(value) \o "\""

JsonList(items, n) ==
    IF n = 0 THEN ""
    ELSE (IF n = 1 THEN "" ELSE JsonList(items, n - 1) \o ", ") \o JsonValue(items[n])

JsonItems(data, n) ==
    IF n = 0 THEN ""
    ELSE LET rest == JsonItems(data, n - 1)
             k == SortedFieldNames[n]
         IN  IF ~Has(data, k) THEN rest
             ELSE (IF rest = "" THEN "" ELSE rest \o ", ")
                  \o "\"" \o k \o "\": " \o JsonValue(Get(data, k))

\* The items of data in insertion order.
RECURSIVE JsonPairs(_, _)
JsonPairs(data, n) ==
    IF n = 0 THEN ""
    ELSE (IF n = 1 THEN "" ELSE JsonPairs(data, n - 1) \o ", ")
         \o "\"" \o data[n][1] \o "\": " \o JsonValue(data[n][2])

\* calculate_hash without sort_keys=True.
calculate_hash_unsorted(data) == "{" \o JsonPairs(data, Len(data)) \o "}"

calculate_hash(data) == "{" \o JsonItems(data, Len(SortedFieldNames)) \o "}"

(***************************************************************************)
(* The configurations and the source rows of the model.                    *)
(***************************************************************************)
\* A sync definition with a typed rule: val is a number field.
OrdersConfig ==
    [name |-> "orders", primary_key |-> "id",
     table_id |-> "tbl_orders",
     field_mappings |-> << <<"id", "ext_id">>, <<"val", "amount">> >>,
     field_types |-> [val |-> [type |-> "number"]],
     transformations |-> EmptyMap]

\* A sync definition with a legacy transform: val is transformed as a number.
CustomersConfig ==
    [name |-> "customers", primary_key |-> "id",
     table_id |-> "tbl_customers",
     field_mappings |-> << <<"id", "ext_id">>, <<"val", "amount">> >>,
     field_types |-> EmptyMap,
     transformations |-> [val |-> [type |-> "number"]]]

Configs == {OrdersConfig, CustomersConfig}

Names == {c.name : c \in Configs}

ConfigOf(name) == CHOOSE c \in Configs : c.name = name

Row(id, val) == << <<"id", id>>, <<"val", val>> >>

\* The rows the source may return: keys 1, "1" (the same key once stringified)
\* and 2, a changed value, a value that is no number, and a row without the
\* primary key column.
SourceRows ==
    { Row(IntVal("1"), IntVal("5")),
      Row(IntVal("1"), IntVal("7")),
      Row(StrVal("1"), IntVal("5")),
      Row(IntVal("2"), StrVal("abc")),
      << <<"val", IntVal("5")>> >> }

RECURSIVE SeqsUpTo(_, _)
SeqsUpTo(S, n) ==
    IF n = 0 THEN {<<>>}
    ELSE LET shorter == SeqsUpTo(S, n - 1)
         IN  shorter \cup {Append(b, r) : b \in {x \in shorter : Len(x) = n - 1}, r \in S}

\* The sequences of rows a query may return from a source holding rows.
Batches(rows) == SeqsUpTo(rows, MaxBatch)

\* What a behaviour starts from: the sync definitions that are configured and
\* the rows the source holds.  Either one definition and every row, or both
\* definitions and the two versions of the row with key 1.
Scenarios ==
    { [syncs |-> {OrdersConfig}, source |-> SourceRows],
      [syncs |-> Configs,
       source |-> {Row(IntVal("1"), IntVal("5")), Row(IntVal("1"), IntVal("7"))}] }

Procs == {"p1", "p2"}

\* The faults of the collaborators and of the state store.
StoreFault == "sqlite3.OperationalError: database is locked"

DuplicateRun == "sqlite3.IntegrityError: UNIQUE constraint failed: sync_runs.sync_name, sync_runs.started_at"

QueryFault == "pymysql.err.OperationalError: MySQL server has gone away"

TransportFault == "requests.exceptions.HTTPError: 500 Server Error"

KeyFault == "KeyError: 'id'"

NoFault == "none"

(***************************************************************************)
(* state_manager.py: the three tables and the operations on them.          *)
(* A timestamp is the reading of the clock; NULL columns hold NoTime or    *)
(* NoMessage.                                                              *)
(***************************************************************************)
NoTime == -1

NoMessage == "NULL"

\* The columns of table sync_runs (the id of a row is its index).
RunColumns ==
    {"sync_name", "started_at", "completed_at", "status", "records_processed",
     "records_created", "records_updated", "records_skipped", "error_message"}

\* start_sync_run on a table without UNIQUE(sync_name, started_at).
start_sync_run_no_unique(runs, sync_name, clock) ==
    Ok(Append(runs,
        [sync_name |-> sync_name, started_at |-> clock, completed_at |-> NoTime,
         status |-> "running", records_processed |-> 0, records_created |-> 0,
         records_updated |-> 0, records_skipped |-> 0,
         error_message |-> NoMessage]))

\* INSERT INTO sync_runs ... VALUES (?, ?, 'running'), UNIQUE(sync_name, started_at)
start_sync_run(runs, sync_name, clock) ==
    IF \E id \in 1..Len(runs) :
           runs[id].sync_name = sync_name /\ runs[id].started_at = clock
    THEN Raise(DuplicateRun)
    ELSE Ok(Append(runs,
            [sync_name |-> sync_name, started_at |-> clock, completed_at |-> NoTime,
             status |-> "running", records_processed |-> 0, records_created |-> 0,
             records_updated |-> 0, records_skipped |-> 0,
             error_message |-> NoMessage]))

\* complete_sync_run whose UPDATE leaves out the status column.
complete_sync_run_keeps_status(runs, run_id, status, records_processed, records_created, records_updated, records_skipped, error_message, clock) ==
    [id \in 1..Len(runs) |->
        IF id = run_id
        THEN [runs[id] EXCEPT !.completed_at = clock,
                              !.records_processed = records_processed,
                              !.records_created = records_created,
                              !.records_updated = records_updated,
                              !.records_skipped = records_skipped,
                              !.error_message = error_message]
        ELSE runs[id]]

\* complete_sync_run whose UPDATE leaves out the error_message column.
complete_sync_run_drops_message(runs, run_id, status, records_processed, records_created, records_updated, records_skipped, error_message, clock) ==
    [id \in 1..Len(runs) |->
        IF id = run_id
        THEN [runs[id] EXCEPT !.completed_at = clock, !.status = status,
                              !.records_processed = records_processed,
                              !.records_created = records_created,
                              !.records_updated = records_updated,
                              !.records_skipped = records_skipped]
        ELSE runs[id]]

\* complete_sync_run that binds str(error_message): no message is stored as 'None'.
complete_sync_run_always_message(runs, run_id, status, records_processed, records_created, records_updated, records_skipped, error_message, clock) ==
    [id \in 1..Len(runs) |->
        IF id = run_id
        THEN [runs[id] EXCEPT !.completed_at = clock, !.status = status,
                              !.records_processed = records_processed,
                              !.records_created = records_created,
                              !.records_updated = records_updated,
                              !.records_skipped = records_skipped,
                              !.error_message = IF error_message = NoMessage THEN "None"
                                                ELSE error_message]
        ELSE runs[id]]

\* UPDATE sync_runs SET ... WHERE id = ?
complete_sync_run(runs, run_id, status, records_processed, records_created, records_updated, records_skipped, error_message, clock) ==
    [id \in 1..Len(runs) |->
        IF id = run_id
        THEN [runs[id] EXCEPT !.completed_at = clock, !.status = status,
                              !.records_processed = records_processed,
                              !.records_created = records_created,
                              !.records_updated = records_updated,
                              !.records_skipped = records_skipped,
                              !.error_message = error_message]
        ELSE runs[id]]

\* get_last_sync_time that selects column last_successful_run.
get_last_sync_time_reads_last_run(metadata, sync_name) ==
    LET found == {m \in metadata : m.sync_name = sync_name}
    IN  IF found # {} THEN (CHOOSE m \in found : TRUE).last_successful_run ELSE NoTime

\* SELECT last_sync_time FROM sync_metadata WHERE sync_name = ?
get_last_sync_time(metadata, sync_name) ==
    LET found == {m \in metadata : m.sync_name = sync_name}
    IN  IF found # {} THEN (CHOOSE m \in found : TRUE).last_sync_time ELSE NoTime

\* update_last_sync_time whose DO UPDATE SET leaves out last_successful_run.
update_last_sync_time_keeps_last_run(metadata, sync_name, sync_time, clock) ==
    LET conflict == {m \in metadata : m.sync_name = sync_name}
    IN  IF conflict = {}
        THEN metadata \cup {[sync_name |-> sync_name, last_sync_time |-> sync_time,
                             last_successful_run |-> clock]}
        ELSE (metadata \ conflict)
                \cup {[m EXCEPT !.last_sync_time = sync_time] : m \in conflict}

\* INSERT INTO sync_metadata ... ON CONFLICT(sync_name) DO UPDATE
update_last_sync_time(metadata, sync_name, sync_time, clock) ==
    {m \in metadata : m.sync_name # sync_name}
        \cup {[sync_name |-> sync_name, last_sync_time |-> sync_time,
               last_successful_run |-> clock]}

NoMapping == [found |-> FALSE]

\* get_record_mapping with a WHERE clause that leaves out sync_name.
get_record_mapping_any_sync(mappings, sync_name, source_id) ==
    LET found == {m \in mappings : m.source_id = source_id}
    IN  IF found # {}
        THEN LET result == CHOOSE m \in found : TRUE
             IN  [found |-> TRUE,
                  smartsuite_record_id |-> result.smartsuite_record_id,
                  data_hash |-> result.data_hash,
                  created_at |-> result.created_at,
                  updated_at |-> result.updated_at]
        ELSE NoMapping

\* SELECT ... FROM record_mappings WHERE sync_name = ? AND source_id = ?
get_record_mapping(mappings, sync_name, source_id) ==
    LET found == {m \in mappings : m.sync_name = sync_name /\ m.source_id = source_id}
    IN  IF found # {}
        THEN LET result == CHOOSE m \in found : TRUE
             IN  [found |-> TRUE,
                  smartsuite_record_id |-> result.smartsuite_record_id,
                  data_hash |-> result.data_hash,
                  created_at |-> result.created_at,
                  updated_at |-> result.updated_at]
        ELSE NoMapping

\* save_record_mapping that binds no data_hash: the column stays empty.
save_record_mapping_drops_hash(mappings, sync_name, source_id, smartsuite_record_id, data_hash, clock) ==
    LET conflict == {m \in mappings : m.sync_name = sync_name /\ m.source_id = source_id}
    IN  IF conflict = {}
        THEN mappings \cup
                {[sync_name |-> sync_name, source_id |-> source_id,
                  smartsuite_record_id |-> smartsuite_record_id,
                  data_hash |-> "", created_at |-> clock, updated_at |-> clock]}
        ELSE (mappings \ conflict) \cup
                {[m EXCEPT !.smartsuite_record_id = smartsuite_record_id,
                           !.data_hash = "",
                           !.updated_at = clock] : m \in conflict}

\* save_record_mapping with ON CONFLICT DO NOTHING: an existing row is kept.
save_record_mapping_ignores_conflict(mappings, sync_name, source_id, smartsuite_record_id, data_hash, clock) ==
    LET conflict == {m \in mappings : m.sync_name = sync_name /\ m.source_id = source_id}
    IN  IF conflict = {}
        THEN mappings \cup
                {[sync_name |-> sync_name, source_id |-> source_id,
                  smartsuite_record_id |-> smartsuite_record_id,
                  data_hash |-> data_hash, created_at |-> clock, updated_at |-> clock]}
        ELSE mappings

\* save_record_mapping on a table without UNIQUE(sync_name, source_id): a plain INSERT.
save_record_mapping_inserts(mappings, sync_name, source_id, smartsuite_record_id, data_hash, clock) ==
    mappings \cup
        {[sync_name |-> sync_name, source_id |-> source_id,
          smartsuite_record_id |-> smartsuite_record_id,
          data_hash |-> data_hash, created_at |-> clock, updated_at |-> clock]}

\* save_record_mapping on a table with UNIQUE(source_id): the conflict target
\* leaves out sync_name.
save_record_mapping_any_sync(mappings, sync_name, source_id, smartsuite_record_id, data_hash, clock) ==
    LET conflict == {m \in mappings : m.source_id = source_id}
    IN  IF conflict = {}
        THEN mappings \cup
                {[sync_name |-> sync_name, source_id |-> source_id,
                  smartsuite_record_id |-> smartsuite_record_id,
                  data_hash |-> data_hash, created_at |-> clock, updated_at |-> clock]}
        ELSE (mappings \ conflict) \cup
                {[m EXCEPT !.smartsuite_record_id = smartsuite_record_id,
                           !.data_hash = data_hash,
                           !.updated_at = clock] : m \in conflict}

\* save_record_mapping written as INSERT OR REPLACE: the row is replaced whole.
save_record_mapping_replaces(mappings, sync_name, source_id, smartsuite_record_id, data_hash, clock) ==
    {m \in mappings : ~(m.sync_name = sync_name /\ m.source_id = source_id)} \cup
        {[sync_name |-> sync_name, source_id |-> source_id,
          smartsuite_record_id |-> smartsuite_record_id,
          data_hash |-> data_hash, created_at |-> clock, updated_at |-> clock]}

\* save_record_mapping whose transaction is not committed: a later read does
\* not see the row.
save_record_mapping_not_committed(mappings, sync_name, source_id, smartsuite_record_id, data_hash, clock) ==
    mappings

\* INSERT INTO record_mappings ... ON CONFLICT(sync_name, source_id) DO UPDATE
save_record_mapping(mappings, sync_name, source_id, smartsuite_record_id, data_hash, clock) ==
    LET conflict == {m \in mappings : m.sync_name = sync_name /\ m.source_id = source_id}
    IN  IF conflict = {}
        THEN mappings \cup
                {[sync_name |-> sync_name, source_id |-> source_id,
                  smartsuite_record_id |-> smartsuite_record_id,
                  data_hash |-> data_hash, created_at |-> clock, updated_at |-> clock]}
        ELSE (mappings \ conflict) \cup
                {[m EXCEPT !.smartsuite_record_id = smartsuite_record_id,
                           !.data_hash = data_hash,
                           !.updated_at = clock] : m \in conflict}

(***************************************************************************)
(* sync_engine.py: the pure steps of sync() and _sync_record().            *)
(***************************************************************************)
ZeroStats == [processed |-> 0, created |-> 0, updated |-> 0, skipped |-> 0, errors |-> 0]

\* source_id = str(source_record[config.primary_key])
SourceId(config, source_record) ==
    IF Has(source_record, config.primary_key)
    THEN Ok(PyStr(Get(source_record, config.primary_key)))
    ELSE Raise(KeyFault)

\* _sync_record creating a record for a mapped row whose payload changed.
Decide_recreates(existing_mapping, data_hash) ==
    IF existing_mapping.found /\ existing_mapping.data_hash = data_hash
    THEN "skipped" ELSE "create"

\* _sync_record without the comparison of the hashes: a mapped row is updated.
Decide_no_skip(existing_mapping, data_hash) ==
    IF existing_mapping.found THEN "update" ELSE "create"

\* The branch _sync_record takes on the mapping it found.
Decide(existing_mapping, data_hash) ==
    IF existing_mapping.found
    THEN IF existing_mapping.data_hash = data_hash THEN "skipped" ELSE "update"
    ELSE "create"

\* A loop that counts an updated row as a created one.
Count_miscount(stats, result) ==
    LET counted == [stats EXCEPT !.processed = @ + 1]
    IN  CASE result = "created" -> [counted EXCEPT !.created = @ + 1]
          [] result = "updated" -> [counted EXCEPT !.created = @ + 1]
          [] result = "skipped" -> [counted EXCEPT !.skipped = @ + 1]
          [] OTHER -> counted

\* stats after _sync_record returned result
Count(stats, result) ==
    LET counted == [stats EXCEPT !.processed = @ + 1]
    IN  CASE result = "created" -> [counted EXCEPT !.created = @ + 1]
          [] result = "updated" -> [counted EXCEPT !.updated = @ + 1]
          [] result = "skipped" -> [counted EXCEPT !.skipped = @ + 1]
          [] OTHER -> counted

\* A loop that counts a row that raised as processed too.
CountError_processed(stats) == [stats EXCEPT !.errors = @ + 1, !.processed = @ + 1]

\* stats after _sync_record raised
CountError(stats) == [stats EXCEPT !.errors = @ + 1]

(***************************************************************************)
(* The state.                                                              *)
(*   syncs            the sync definitions loaded from the configuration   *)
(*   source           the rows the source holds                            *)
(*   now              the reading datetime.utcnow() gives                  *)
(*   sync_runs        table sync_runs; the id of a row is its index        *)
(*   record_mappings  table record_mappings                                *)
(*   sync_metadata    table sync_metadata                                  *)
(*   smartsuite       the records of the destination; the id of a record   *)
(*                    is its index                                         *)
(*   pc, loc          per invocation of sync(): its position and locals    *)
(*   obs              per invocation: what it was observed to do           *)
(*   prev             per sync name: the last invocation that finished, *)
(*                    its rows and what was observed of them               *)
(*   boundary         per sync name: the sync_time of the last call of      *)
(*                    update_last_sync_time that returned                  *)
(*   invocations      the number of invocations of sync() so far           *)
(*   faults           the number of faults the store and the collaborators *)
(*                    have raised so far                                   *)
(*   call             a call of a converter, of the mapper or of the       *)
(*                    loader made outside a run: its arguments and, once   *)
(*                    it returned or raised, its result                    *)
(***************************************************************************)
VARIABLES syncs, source, now, sync_runs, record_mappings, sync_metadata, smartsuite,
          pc, loc, obs, prev, boundary, invocations, faults, call

vars == <<syncs, source, now, sync_runs, record_mappings, sync_metadata, smartsuite,
          pc, loc, obs, prev, boundary, invocations, faults, call>>

\* The configuration and the source do not change during a behaviour, and a
\* run makes no call outside itself.
env == <<syncs, source, call>>

\* No call outside a run.
NoCall == [op |-> "none"]

store == <<sync_runs, record_mappings, sync_metadata>>

IdleLoc ==
    [config |-> "none", run_id |-> 0, stats |-> ZeroStats, last_sync_time |-> NoTime,
     source_records |-> <<>>, i |-> 0, source_id |-> "", mapped_record |-> <<>>,
     data_hash |-> "", existing_mapping |-> NoMapping, smartsuite_id |-> 0,
     current_time |-> NoTime, exc |-> NoFault]

\* What an invocation is observed to do: the rows it handled, its calls of
\* complete_sync_run and how many of them returned, the call whose fault left
\* the try block, the last_sync_time parameters of its queries, its calls of
\* update_last_sync_time that returned, and the tables as they were when it
\* was entered.
IdleObs ==
    [rows |-> <<>>, complete_calls |-> 0, completions |-> 0, fault_at |-> "none",
     queries |-> <<>>, metadata_writes |-> 0, mappings_before |-> {},
     smartsuite_before |-> <<>>, metadata_before |-> {}]

NoPrev == [outcome |-> "none"]

Init ==
    /\ \E scenario \in Scenarios :
          /\ syncs = scenario.syncs
          /\ source = scenario.source
    /\ now = 0
    /\ sync_runs = <<>>
    /\ record_mappings = {}
    /\ sync_metadata = {}
    /\ smartsuite = <<>>
    /\ pc = [p \in Procs |-> "idle"]
    /\ loc = [p \in Procs |-> IdleLoc]
    /\ obs = [p \in Procs |-> IdleObs]
    /\ prev = [n \in Names |-> NoPrev]
    /\ boundary = [n \in Names |-> NoTime]
    /\ invocations = 0
    /\ faults = 0
    /\ call = NoCall

\* The outcomes of a call that may raise fault: it does not, or it does.
Outcomes(fault) == IF faults < MaxFaults THEN {NoFault, fault} ELSE {NoFault}

Raises(fault) == faults' = IF fault # NoFault THEN faults + 1 ELSE faults

\* The positions whose next step reads the clock.
ReadsClock ==
    {"idle", "save_created", "save_updated", "read_clock", "update_last",
     "complete_empty", "complete_success", "except"}

\* Time passes, or does not, between two readings of the clock (the clock is
\* seen only where it is read).
Tick ==
    /\ now < MaxClock
    /\ \E p \in Procs : pc[p] \in ReadsClock
    /\ now' = now + 1
    /\ UNCHANGED <<env, sync_runs, record_mappings, sync_metadata, smartsuite,
                   pc, loc, obs, prev, boundary, invocations, faults>>

\* The locals of _sync_record are gone once it returned or raised.
ClearRow(l) ==
    [l EXCEPT !.source_id = "", !.mapped_record = <<>>, !.data_hash = "",
              !.existing_mapping = NoMapping, !.smartsuite_id = 0]

\* A loop that does not move on after a row returned: the row is handled again.
RowReturned_repeats(l, result) ==
    ClearRow([l EXCEPT !.stats = Count(@, result)])

\* sync() after _sync_record returned result: lines 90-97, then the next row
RowReturned(l, result) ==
    ClearRow([l EXCEPT !.stats = Count(@, result), !.i = @ + 1])

\* A loop that a row's fault ends: no later row is handled.
RowRaised_aborts(l) ==
    ClearRow([l EXCEPT !.stats = CountError(@), !.i = Len(l.source_records) + 1])

\* sync() after _sync_record raised: lines 99-102, then the next row
RowRaised(l) ==
    ClearRow([l EXCEPT !.stats = CountError(@), !.i = @ + 1])

\* A loop after which the boundary is written only when no row raised.
LoopPc_keeps_boundary_on_error(l) ==
    IF l.i <= Len(l.source_records) THEN "record"
    ELSE IF l.stats.errors > 0 THEN "complete_success" ELSE "read_clock"

\* if not source_records: ... return stats; else the loop
AfterFetch(source_records) ==
    IF source_records = <<>> THEN "complete_empty" ELSE "record"

\* Where the loop stands for locals l: at a row, or past the last one.
LoopPc(l) == IF l.i <= Len(l.source_records) THEN "record" ELSE "read_clock"

\* What is observed of the row in hand.
NewRow(source_id, data_hash, stored, existing_mapping, branch) ==
    [source_id |-> source_id, data_hash |-> data_hash, stored |-> stored,
     found |-> existing_mapping, branch |-> branch, creates |-> 0, updates |-> 0, update_id |-> 0,
     created_id |-> 0, saves |-> 0, saved_id |-> 0, saved_hash |-> "", result |-> "pending"]

Last(o) == o.rows[Len(o.rows)]

(***************************************************************************)
(* sync_engine.py: SyncEngine.sync, one action per call it makes.          *)
(***************************************************************************)
\* sync(config) is entered by p: run_id = self.state.start_sync_run(config.name),
\* outside the try block.
StartSync(p, config) ==
    /\ pc[p] = "idle"
    /\ invocations < MaxRuns
    /\ invocations' = invocations + 1
    /\ \E fault \in Outcomes(StoreFault) :
          LET r == IF fault # NoFault THEN Raise(fault)
                   ELSE start_sync_run(sync_runs, config.name, now)
          IN  /\ Raises(fault)
              /\ obs' = [obs EXCEPT ![p] =
                            [IdleObs EXCEPT !.mappings_before = record_mappings,
                                            !.metadata_before = sync_metadata,
                                            !.smartsuite_before = smartsuite,
                                            !.fault_at = IF r.ok THEN "none" ELSE "start"]]
              /\ IF r.ok
                 THEN /\ sync_runs' = r.val
                      /\ loc' = [loc EXCEPT ![p] =
                                    [IdleLoc EXCEPT !.config = config.name,
                                                    !.run_id = Len(r.val)]]
                      /\ pc' = [pc EXCEPT ![p] = "get_last"]
                 ELSE /\ sync_runs' = sync_runs
                      /\ loc' = [loc EXCEPT ![p] =
                                    [IdleLoc EXCEPT !.config = config.name, !.exc = r.exc]]
                      /\ pc' = [pc EXCEPT ![p] = "raised"]
    /\ UNCHANGED <<env, now, record_mappings, sync_metadata, smartsuite, prev, boundary>>

\* run_once: sync() is called for one of the enabled definitions.
Sync(p) == \E config \in syncs : StartSync(p, config)

\* last_sync_time = self.state.get_last_sync_time(config.name)
GetLastSyncTime(p) ==
    /\ pc[p] = "get_last"
    /\ \E fault \in Outcomes(StoreFault) :
          /\ Raises(fault)
          /\ IF fault = NoFault
             THEN /\ loc' = [loc EXCEPT ![p].last_sync_time =
                                 get_last_sync_time(sync_metadata, loc[p].config)]
                  /\ pc' = [pc EXCEPT ![p] = "fetch"]
                  /\ obs' = obs
             ELSE /\ loc' = [loc EXCEPT ![p].exc = fault]
                  /\ pc' = [pc EXCEPT ![p] = "except"]
                  /\ obs' = [obs EXCEPT ![p].fault_at = "get_last_sync_time"]
    /\ UNCHANGED <<env, now, sync_runs, record_mappings, sync_metadata, smartsuite,
                   prev, boundary, invocations>>

\* source_records = self.mysql.execute_query(config.query, query_params)
ExecuteQuery(p) ==
    /\ pc[p] = "fetch"
    /\ \E fault \in Outcomes(QueryFault) :
          /\ Raises(fault)
          /\ IF fault = NoFault
             THEN \E batch \in Batches(source) :
                     /\ loc' = [loc EXCEPT ![p].source_records = batch, ![p].i = 1]
                     /\ pc' = [pc EXCEPT ![p] = AfterFetch(batch)]
                     /\ obs' = [obs EXCEPT ![p].queries = Append(@, loc[p].last_sync_time)]
             ELSE /\ loc' = [loc EXCEPT ![p].exc = fault]
                  /\ pc' = [pc EXCEPT ![p] = "except"]
                  /\ obs' = [obs EXCEPT ![p].queries = Append(@, loc[p].last_sync_time),
                                        ![p].fault_at = "execute_query"]
    /\ UNCHANGED <<env, now, sync_runs, record_mappings, sync_metadata, smartsuite,
                   prev, boundary, invocations>>

\* if not source_records: complete_sync_run(run_id, status='success',
\* records_processed=0); return stats
CompleteEmpty(p) ==
    /\ pc[p] = "complete_empty"
    /\ \E fault \in Outcomes(StoreFault) :
          /\ Raises(fault)
          /\ obs' = [obs EXCEPT ![p].complete_calls = @ + 1,
                                ![p].completions = IF fault = NoFault THEN @ + 1 ELSE @,
                                ![p].fault_at = IF fault = NoFault THEN @
                                                ELSE "complete_sync_run"]
          /\ IF fault = NoFault
             THEN /\ sync_runs' = complete_sync_run(sync_runs, loc[p].run_id, "success",
                                                    0, 0, 0, 0, NoMessage, now)
                  /\ loc' = loc
                  /\ pc' = [pc EXCEPT ![p] = "returned"]
             ELSE /\ sync_runs' = sync_runs
                  /\ loc' = [loc EXCEPT ![p].exc = fault]
                  /\ pc' = [pc EXCEPT ![p] = "except"]
    /\ UNCHANGED <<env, now, record_mappings, sync_metadata, smartsuite, prev, boundary, invocations>>

(***************************************************************************)
(* sync_engine.py: SyncEngine._sync_record, one action per call it makes   *)
(* on the state store or the destination.                                  *)
(***************************************************************************)
\* The row in hand raised: the loop counts an error and goes on.
RowFails(p, o) ==
    /\ obs' = [obs EXCEPT ![p] = [o EXCEPT !.rows[Len(o.rows)].result = "error"]]
    /\ loc' = [loc EXCEPT ![p] = RowRaised(loc[p])]
    /\ pc' = [pc EXCEPT ![p] = LoopPc(RowRaised(loc[p]))]

\* The row in hand returned result: the loop counts it and goes on.
RowDone(p, o, result) ==
    /\ obs' = [obs EXCEPT ![p] = [o EXCEPT !.rows[Len(o.rows)].result = result]]
    /\ loc' = [loc EXCEPT ![p] = RowReturned(loc[p], result)]
    /\ pc' = [pc EXCEPT ![p] = LoopPc(RowReturned(loc[p], result))]

\* Lines 143-159: the key, the payload, its hash, the lookup and the branch.
LookUp(p) ==
    /\ pc[p] = "record"
    /\ LET l == loc[p]
           config == ConfigOf(l.config)
           source_record == l.source_records[l.i]
           source_id == SourceId(config, source_record)
           mapped_record == map_record(config, source_record)
           stored(sid) == {m \in record_mappings :
                              m.sync_name = l.config /\ m.source_id = sid}
           seen(sid, h, m, b) ==
               [obs[p] EXCEPT !.rows = Append(@, NewRow(sid, h, stored(sid), m, b))]
       IN  IF ~source_id.ok
           THEN RowFails(p, seen("", "", NoMapping, "key fault")) /\ faults' = faults
           ELSE IF ~mapped_record.ok
           THEN /\ RowFails(p, seen(source_id.val, "", NoMapping, "conversion fault"))
                /\ faults' = faults
           ELSE LET data_hash == calculate_hash(mapped_record.val)
                IN  \E fault \in Outcomes(StoreFault) :
                       /\ Raises(fault)
                       /\ IF fault # NoFault
                          THEN RowFails(p, seen(source_id.val, data_hash, NoMapping,
                                                "lookup fault"))
                          ELSE LET existing_mapping ==
                                       get_record_mapping(record_mappings, l.config,
                                                          source_id.val)
                                   branch == Decide(existing_mapping, data_hash)
                                   o == seen(source_id.val, data_hash, existing_mapping, branch)
                               IN  IF branch = "skipped"
                                   THEN RowDone(p, o, "skipped")
                                   ELSE /\ obs' = [obs EXCEPT ![p] = o]
                                        /\ loc' = [loc EXCEPT ![p] =
                                                     [l EXCEPT !.source_id = source_id.val,
                                                               !.mapped_record = mapped_record.val,
                                                               !.data_hash = data_hash,
                                                               !.existing_mapping = existing_mapping]]
                                        /\ pc' = [pc EXCEPT ![p] =
                                                     IF branch = "update" THEN "update_record"
                                                     ELSE "create_record"]
    /\ UNCHANGED <<env, now, sync_runs, record_mappings, sync_metadata, smartsuite,
                   prev, boundary, invocations>>

\* A create whose fault is swallowed: _sync_record goes on to save a mapping
\* for a record the destination never made.
CreateRecord_ignores_fault(p) ==
    /\ pc[p] = "create_record"
    /\ LET l == loc[p]
           o == [obs[p] EXCEPT !.rows[Len(obs[p].rows)].creates = @ + 1]
       IN  \E fault \in Outcomes(TransportFault) :
              /\ Raises(fault)
              /\ smartsuite' = IF fault # NoFault THEN smartsuite
                               ELSE Append(smartsuite,
                                           [table_id |-> ConfigOf(l.config).table_id,
                                            data |-> l.mapped_record])
              /\ obs' = [obs EXCEPT ![p] =
                           [o EXCEPT !.rows[Len(o.rows)].created_id = Len(smartsuite) + 1]]
              /\ loc' = [loc EXCEPT ![p].smartsuite_id = Len(smartsuite) + 1]
              /\ pc' = [pc EXCEPT ![p] = "save_created"]
    /\ UNCHANGED <<env, now, sync_runs, record_mappings, sync_metadata, prev, boundary, invocations>>

\* created_record = self.smartsuite.create_record(...); smartsuite_id = created_record['id']
CreateRecord(p) ==
    /\ pc[p] = "create_record"
    /\ LET l == loc[p]
           o == [obs[p] EXCEPT !.rows[Len(obs[p].rows)].creates = @ + 1]
       IN  \E fault \in Outcomes(TransportFault) :
              /\ Raises(fault)
              /\ IF fault # NoFault
                 THEN /\ RowFails(p, o)
                      /\ smartsuite' = smartsuite
                 ELSE /\ smartsuite' = Append(smartsuite,
                                           [table_id |-> ConfigOf(l.config).table_id,
                                            data |-> l.mapped_record])
                      /\ obs' = [obs EXCEPT ![p] =
                                   [o EXCEPT !.rows[Len(o.rows)].created_id = Len(smartsuite) + 1]]
                      /\ loc' = [loc EXCEPT ![p].smartsuite_id = Len(smartsuite) + 1]
                      /\ pc' = [pc EXCEPT ![p] = "save_created"]
    /\ UNCHANGED <<env, now, sync_runs, record_mappings, sync_metadata, prev, boundary, invocations>>

\* self.state.save_record_mapping(..., smartsuite_record_id=smartsuite_id, ...); return 'created'
SaveCreated(p) ==
    /\ pc[p] = "save_created"
    /\ LET l == loc[p]
           o == [obs[p] EXCEPT !.rows[Len(obs[p].rows)].saves = @ + 1,
                               !.rows[Len(obs[p].rows)].saved_id = l.smartsuite_id,
                               !.rows[Len(obs[p].rows)].saved_hash = l.data_hash]
       IN  \E fault \in Outcomes(StoreFault) :
              /\ Raises(fault)
              /\ IF fault # NoFault
                 THEN /\ RowFails(p, o)
                      /\ record_mappings' = record_mappings
                 ELSE /\ record_mappings' =
                             save_record_mapping(record_mappings, l.config, l.source_id,
                                                 l.smartsuite_id, l.data_hash, now)
                      /\ RowDone(p, o, "created")
    /\ UNCHANGED <<env, now, sync_runs, sync_metadata, smartsuite, prev, boundary, invocations>>

\* An update made after the mapping was written: the new hash is stored
\* whether update_record returns or raises.
UpdateRecord_after_save(p) ==
    /\ pc[p] = "update_record"
    /\ LET l == loc[p]
           record_id == l.existing_mapping.smartsuite_record_id
           o == [obs[p] EXCEPT !.rows[Len(obs[p].rows)].updates = @ + 1,
                               !.rows[Len(obs[p].rows)].update_id = record_id]
       IN  /\ record_mappings' = save_record_mapping(record_mappings, l.config, l.source_id,
                                                     record_id, l.data_hash, now)
           /\ \E fault \in Outcomes(TransportFault) :
                 /\ Raises(fault)
                 /\ IF fault # NoFault
                    THEN /\ RowFails(p, o)
                         /\ smartsuite' = smartsuite
                    ELSE /\ smartsuite' = [id \in 1..Len(smartsuite) |->
                                              IF id = record_id
                                              THEN [smartsuite[id] EXCEPT !.data = l.mapped_record]
                                              ELSE smartsuite[id]]
                         /\ obs' = [obs EXCEPT ![p] = o]
                         /\ loc' = loc
                         /\ pc' = [pc EXCEPT ![p] = "save_updated"]
    /\ UNCHANGED <<env, now, sync_runs, sync_metadata, prev, boundary, invocations>>

\* self.smartsuite.update_record(record_id=existing_mapping['smartsuite_record_id'], ...)
UpdateRecord(p) ==
    /\ pc[p] = "update_record"
    /\ LET l == loc[p]
           record_id == l.existing_mapping.smartsuite_record_id
           o == [obs[p] EXCEPT !.rows[Len(obs[p].rows)].updates = @ + 1,
                               !.rows[Len(obs[p].rows)].update_id = record_id]
       IN  \E fault \in Outcomes(TransportFault) :
              /\ Raises(fault)
              /\ IF fault # NoFault
                 THEN /\ RowFails(p, o)
                      /\ smartsuite' = smartsuite
                 ELSE /\ smartsuite' = [id \in 1..Len(smartsuite) |->
                                           IF id = record_id
                                           THEN [smartsuite[id] EXCEPT !.data = l.mapped_record]
                                           ELSE smartsuite[id]]
                      /\ obs' = [obs EXCEPT ![p] = o]
                      /\ loc' = loc
                      /\ pc' = [pc EXCEPT ![p] = "save_updated"]
    /\ UNCHANGED <<env, now, sync_runs, record_mappings, sync_metadata, prev, boundary, invocations>>

\* self.state.save_record_mapping(...,
\*     smartsuite_record_id=existing_mapping['smartsuite_record_id'], ...); return 'updated'
SaveUpdated(p) ==
    /\ pc[p] = "save_updated"
    /\ LET l == loc[p]
           record_id == l.existing_mapping.smartsuite_record_id
           o == [obs[p] EXCEPT !.rows[Len(obs[p].rows)].saves = @ + 1,
                               !.rows[Len(obs[p].rows)].saved_id = record_id,
                               !.rows[Len(obs[p].rows)].saved_hash = l.data_hash]
       IN  \E fault \in Outcomes(StoreFault) :
              /\ Raises(fault)
              /\ IF fault # NoFault
                 THEN /\ RowFails(p, o)
                      /\ record_mappings' = record_mappings
                 ELSE /\ record_mappings' =
                             save_record_mapping(record_mappings, l.config, l.source_id,
                                                 record_id, l.data_hash, now)
                      /\ RowDone(p, o, "updated")
    /\ UNCHANGED <<env, now, sync_runs, sync_metadata, smartsuite, prev, boundary, invocations>>

(***************************************************************************)
(* sync_engine.py: SyncEngine.sync after the loop.                         *)
(***************************************************************************)
\* current_time = datetime.utcnow().isoformat()
ReadClock(p) ==
    /\ pc[p] = "read_clock"
    /\ loc' = [loc EXCEPT ![p].current_time = now]
    /\ pc' = [pc EXCEPT ![p] = "update_last"]
    /\ UNCHANGED <<env, now, sync_runs, record_mappings, sync_metadata, smartsuite,
                   obs, prev, boundary, invocations, faults>>

\* self.state.update_last_sync_time(config.name, current_time)
UpdateLastSyncTime(p) ==
    /\ pc[p] = "update_last"
    /\ \E fault \in Outcomes(StoreFault) :
          /\ Raises(fault)
          /\ IF fault = NoFault
             THEN /\ sync_metadata' = update_last_sync_time(sync_metadata, loc[p].config,
                                                            loc[p].current_time, now)
                  /\ boundary' = [boundary EXCEPT ![loc[p].config] = loc[p].current_time]
                  /\ loc' = loc
                  /\ pc' = [pc EXCEPT ![p] = "complete_success"]
                  /\ obs' = [obs EXCEPT ![p].metadata_writes = @ + 1]
             ELSE /\ sync_metadata' = sync_metadata
                  /\ boundary' = boundary
                  /\ loc' = [loc EXCEPT ![p].exc = fault]
                  /\ pc' = [pc EXCEPT ![p] = "except"]
                  /\ obs' = [obs EXCEPT ![p].fault_at = "update_last_sync_time"]
    /\ UNCHANGED <<env, now, sync_runs, record_mappings, smartsuite, prev, invocations>>

\* self.state.complete_sync_run(run_id, status='success', records_processed=..., ...);
\* return stats
CompleteSuccess(p) ==
    /\ pc[p] = "complete_success"
    /\ \E fault \in Outcomes(StoreFault) :
          /\ Raises(fault)
          /\ obs' = [obs EXCEPT ![p].complete_calls = @ + 1,
                                ![p].completions = IF fault = NoFault THEN @ + 1 ELSE @,
                                ![p].fault_at = IF fault = NoFault THEN @
                                                ELSE "complete_sync_run"]
          /\ IF fault = NoFault
             THEN /\ sync_runs' = complete_sync_run(sync_runs, loc[p].run_id, "success",
                                       loc[p].stats.processed, loc[p].stats.created,
                                       loc[p].stats.updated, loc[p].stats.skipped,
                                       NoMessage, now)
                  /\ loc' = loc
                  /\ pc' = [pc EXCEPT ![p] = "returned"]
             ELSE /\ sync_runs' = sync_runs
                  /\ loc' = [loc EXCEPT ![p].exc = fault]
                  /\ pc' = [pc EXCEPT ![p] = "except"]
    /\ UNCHANGED <<env, now, record_mappings, sync_metadata, smartsuite, prev, boundary, invocations>>

\* except Exception as e: self.state.complete_sync_run(run_id, status='failed',
\* error_message=str(e)); raise.  The handler is entered on a fault, so its own
\* call of the store is the one call that may raise after MaxFaults faults.
Except(p) ==
    /\ pc[p] = "except"
    /\ \E fault \in {NoFault, StoreFault} :
          /\ Raises(fault)
          /\ obs' = [obs EXCEPT ![p].complete_calls = @ + 1,
                                ![p].completions = IF fault = NoFault THEN @ + 1 ELSE @]
          /\ IF fault = NoFault
             THEN /\ sync_runs' = complete_sync_run(sync_runs, loc[p].run_id, "failed",
                                                    0, 0, 0, 0, loc[p].exc, now)
                  /\ loc' = loc
             ELSE /\ sync_runs' = sync_runs
                  /\ loc' = [loc EXCEPT ![p].exc = fault]
          /\ pc' = [pc EXCEPT ![p] = "raised"]
    /\ UNCHANGED <<env, now, record_mappings, sync_metadata, smartsuite, prev, boundary, invocations>>

\* The caller has the counters or the fault; the invocation is over.
Return(p) ==
    /\ pc[p] \in {"returned", "raised"}
    /\ prev' = IF loc[p].run_id = 0 THEN prev
               ELSE [prev EXCEPT ![loc[p].config] =
                        [outcome |-> pc[p], source_records |-> loc[p].source_records,
                         stats |-> loc[p].stats, rows |-> obs[p].rows]]
    /\ pc' = [pc EXCEPT ![p] = "idle"]
    /\ loc' = [loc EXCEPT ![p] = IdleLoc]
    /\ obs' = [obs EXCEPT ![p] = IdleObs]
    /\ UNCHANGED <<env, now, sync_runs, record_mappings, sync_metadata, smartsuite,
                   boundary, invocations, faults>>

(***************************************************************************)
(* One invocation of sync() at a time (main.py run_once calls sync() for   *)
(* one definition after the other).                                        *)
(***************************************************************************)
Caller == "p1"

Next ==
    \/ Tick
    \/ Sync(Caller)
    \/ GetLastSyncTime(Caller)
    \/ ExecuteQuery(Caller)
    \/ CompleteEmpty(Caller)
    \/ LookUp(Caller)
    \/ CreateRecord(Caller)
    \/ SaveCreated(Caller)
    \/ UpdateRecord(Caller)
    \/ SaveUpdated(Caller)
    \/ ReadClock(Caller)
    \/ UpdateLastSyncTime(Caller)
    \/ CompleteSuccess(Caller)
    \/ Except(Caller)
    \/ Return(Caller)

Spec == Init /\ [][Next]_vars

\* The steps of sync() between its entry and its return or raise.
Engine(p) ==
    \/ GetLastSyncTime(p)
    \/ ExecuteQuery(p)
    \/ CompleteEmpty(p)
    \/ LookUp(p)
    \/ CreateRecord(p)
    \/ SaveCreated(p)
    \/ UpdateRecord(p)
    \/ SaveUpdated(p)
    \/ ReadClock(p)
    \/ UpdateLastSyncTime(p)
    \/ CompleteSuccess(p)
    \/ Except(p)

(***************************************************************************)
(* scheduler.py: the jobs add_sync_job registers and the runs their        *)
(* triggers start.  The workers of the scheduler's pool are Procs; a       *)
(* worker is in _run_sync from the submission of the job until sync() has  *)
(* returned or raised.                                                     *)
(***************************************************************************)
\* A pool that runs as many instances of a job as it has workers.
max_instances_of_pool == Cardinality(Procs)

\* add_job(..., max_instances=1)
max_instances == 1

\* job_id = f"sync_{config.name}"
job_id(config) == "sync_" \o config.name

\* The jobs of the scheduler after run_scheduled called add_sync_job for every
\* enabled definition: replace_existing=True keeps one job per id.
Jobs ==
    LET ids == {job_id(c) : c \in syncs}
    IN  {[id |-> i, args |-> (CHOOSE c \in syncs : job_id(c) = i).name,
          max_instances |-> max_instances] : i \in ids}

\* The instances of job that are executing _run_sync.
Instances(job) == Cardinality({p \in Procs : pc[p] # "idle" /\ loc[p].config = job.args})

\* The trigger of job fires: the executor submits _run_sync(config) to a free
\* worker unless max_instances of the job are running (the run is then skipped
\* and nothing changes).
Trigger(job) ==
    /\ Instances(job) < job.max_instances
    /\ \E p \in Procs :
          /\ p = CHOOSE w \in Procs : pc[w] = "idle"
          /\ StartSync(p, ConfigOf(job.args))

\* run_scheduled: both definitions are enabled and the source holds the row
\* with key 1, changed since an earlier run of "orders" created its record
\* (that run fetched the row with val 7 at time 0 and returned).
EarlierRow == Row(IntVal("1"), IntVal("7"))

EarlierPayload == map_record(OrdersConfig, EarlierRow).val

\* What was observed of that row in the earlier run.
EarlierEntry ==
    [NewRow("1", calculate_hash(EarlierPayload), {}, NoMapping, "create")
        EXCEPT !.creates = 1, !.created_id = 1, !.saves = 1, !.saved_id = 1,
               !.saved_hash = calculate_hash(EarlierPayload), !.result = "created"]

InitScheduled ==
    /\ syncs = Configs
    /\ source = {Row(IntVal("1"), IntVal("5"))}
    /\ now = 0
    /\ sync_runs = complete_sync_run(start_sync_run(<<>>, "orders", 0).val, 1, "success",
                                     1, 1, 0, 0, NoMessage, 0)
    /\ record_mappings = save_record_mapping({}, "orders", "1", 1,
                                             calculate_hash(EarlierPayload), 0)
    /\ sync_metadata = update_last_sync_time({}, "orders", 0, 0)
    /\ smartsuite = <<[table_id |-> OrdersConfig.table_id, data |-> EarlierPayload]>>
    /\ pc = [p \in Procs |-> "idle"]
    /\ loc = [p \in Procs |-> IdleLoc]
    /\ obs = [p \in Procs |-> IdleObs]
    /\ prev = [n \in Names |->
                 IF n = "orders"
                 THEN [outcome |-> "returned", source_records |-> <<EarlierRow>>,
                       stats |-> Count(ZeroStats, "created"), rows |-> <<EarlierEntry>>]
                 ELSE NoPrev]
    /\ boundary = [n \in Names |-> IF n = "orders" THEN 0 ELSE NoTime]
    /\ invocations = 0
    /\ faults = 0
    /\ call = NoCall

\* run_once on that store: sync() is called for one definition after the
\* other.  sync() is straight-line code around one loop over a list: the
\* interpreter goes on to its next statement, and every call it makes (state
\* store, source query, destination) returns or raises.  Nothing makes the
\* caller call sync() again, and nothing makes time pass.
SpecFair == InitScheduled /\ [][Next]_vars /\ WF_vars(Engine(Caller))

NextScheduled ==
    \/ Tick
    \/ \E job \in Jobs : Trigger(job)
    \/ \E p \in Procs :
          \/ GetLastSyncTime(p)
          \/ ExecuteQuery(p)
          \/ CompleteEmpty(p)
          \/ LookUp(p)
          \/ CreateRecord(p)
          \/ SaveCreated(p)
          \/ UpdateRecord(p)
          \/ SaveUpdated(p)
          \/ ReadClock(p)
          \/ UpdateLastSyncTime(p)
          \/ CompleteSuccess(p)
          \/ Except(p)
          \/ Return(p)

SpecScheduled == InitScheduled /\ [][NextScheduled]_vars

(***************************************************************************)
(* state_manager.py called directly: a client of StateManager calls        *)
(* save_record_mapping, update_last_sync_time and get_last_sync_time with  *)
(* any arguments, in any order, while time passes.  pc[Caller] is the      *)
(* method last called, loc[Caller] holds its arguments (config is          *)
(* sync_name, current_time is sync_time), what it returned                 *)
(* (last_sync_time) and what it raised (exc); boundary is the sync_time of *)
(* the last update_last_sync_time that returned, per sync name.            *)
(***************************************************************************)
\* The arguments the client passes.
RecordIds == {1, 2}

Hashes == {calculate_hash(EarlierPayload),
           calculate_hash(map_record(OrdersConfig, Row(IntVal("1"), IntVal("5"))).val)}

Times == 0..MaxClock

InitStore ==
    /\ syncs = Configs
    /\ source = {}
    /\ now = 0
    /\ sync_runs = <<>>
    /\ record_mappings = {}
    /\ sync_metadata = {}
    /\ smartsuite = <<>>
    /\ pc = [p \in Procs |-> "idle"]
    /\ loc = [p \in Procs |-> IdleLoc]
    /\ obs = [p \in Procs |-> IdleObs]
    /\ prev = [n \in Names |-> NoPrev]
    /\ boundary = [n \in Names |-> NoTime]
    /\ invocations = 0
    /\ faults = 0
    /\ call = NoCall

\* datetime.utcnow() reads later between two calls.
Elapse ==
    /\ now < MaxClock
    /\ now' = now + 1
    /\ UNCHANGED <<env, sync_runs, record_mappings, sync_metadata, smartsuite,
                   pc, loc, obs, prev, boundary, invocations, faults>>

\* state.save_record_mapping(sync_name, source_id, smartsuite_record_id, data_hash)
SaveRecordMappingCall ==
    \E sync_name \in Names, smartsuite_record_id \in RecordIds, data_hash \in Hashes :
    \E fault \in Outcomes(StoreFault) :
        /\ Raises(fault)
        /\ pc' = [pc EXCEPT ![Caller] = "save_record_mapping"]
        /\ loc' = [loc EXCEPT ![Caller] =
                      [IdleLoc EXCEPT !.config = sync_name, !.source_id = "1",
                                      !.smartsuite_id = smartsuite_record_id,
                                      !.data_hash = data_hash, !.exc = fault]]
        /\ record_mappings' =
              IF fault # NoFault THEN record_mappings
              ELSE save_record_mapping(record_mappings, sync_name, "1",
                                       smartsuite_record_id, data_hash, now)
        /\ UNCHANGED <<env, now, sync_runs, sync_metadata, smartsuite, obs, prev,
                       boundary, invocations>>

\* state.update_last_sync_time(sync_name, sync_time)
UpdateLastSyncTimeCall ==
    \E sync_name \in Names, sync_time \in Times :
    \E fault \in Outcomes(StoreFault) :
        /\ Raises(fault)
        /\ pc' = [pc EXCEPT ![Caller] = "update_last_sync_time"]
        /\ loc' = [loc EXCEPT ![Caller] =
                      [IdleLoc EXCEPT !.config = sync_name, !.current_time = sync_time,
                                      !.exc = fault]]
        /\ IF fault # NoFault
           THEN UNCHANGED <<sync_metadata, boundary>>
           ELSE /\ sync_metadata' =
                      update_last_sync_time(sync_metadata, sync_name, sync_time, now)
                /\ boundary' = [boundary EXCEPT ![sync_name] = sync_time]
        /\ UNCHANGED <<env, now, sync_runs, record_mappings, smartsuite, obs, prev,
                       invocations>>

\* state.get_last_sync_time(sync_name)
GetLastSyncTimeCall ==
    \E sync_name \in Names :
    \E fault \in Outcomes(StoreFault) :
        /\ Raises(fault)
        /\ pc' = [pc EXCEPT ![Caller] = "get_last_sync_time"]
        /\ loc' = [loc EXCEPT ![Caller] =
                      [IdleLoc EXCEPT !.config = sync_name, !.exc = fault,
                                      !.last_sync_time =
                                          IF fault # NoFault THEN NoTime
                                          ELSE get_last_sync_time(sync_metadata, sync_name)]]
        /\ UNCHANGED <<env, now, sync_runs, record_mappings, sync_metadata, smartsuite,
                       obs, prev, boundary, invocations>>

NextStore ==
    \/ Elapse
    \/ SaveRecordMappingCall
    \/ UpdateLastSyncTimeCall
    \/ GetLastSyncTimeCall

SpecStore == InitStore /\ [][NextStore]_vars

(***************************************************************************)
(* config_loader.py and calculate_hash called directly: one call of a      *)
(* converter, of map_record or of calculate_hash(map_record(...)) with     *)
(* arguments drawn from the values below; call holds the arguments and,    *)
(* once the call is made, what it returned or raised.                      *)
(***************************************************************************)
Pending(op, args) == [op |-> op, args |-> args, done |-> FALSE]

Returned(c, result) == [op |-> c.op, args |-> c.args, done |-> TRUE, result |-> result]

\* A value-map of a choice field.
StatusMap == [x \in {"abc", "5"} |-> IF x = "abc" THEN "opt_abc" ELSE "opt_5"]

\* The option sets passed to convert.
OptionSets ==
    {EmptyMap, [include_time |-> TRUE], [include_time |-> FALSE],
     [value_map |-> StatusMap], [value_map |-> StatusMap, include_time |-> TRUE]}

\* The field types passed to convert: the keys of the converters table, some
\* of them in another case, and types the table does not know.
FieldTypes == ModelledTypes \cup {"Date", "YesNo", "NUMBER", "PhoneField", "rating", ""}

ADateTime == DateTimeVal("2024-01-02", "03:04:05")

ADate == DateVal("2024-01-02")

\* Scalar values of a source column.
ScalarValues ==
    {None, IntVal("5"), IntVal("0"), StrVal("abc"), StrVal("zzz"), StrVal(""),
     StrVal("Yes"), BoolVal(TRUE), DecimalVal("7"), BytesVal("abc"), ADate, ADateTime}

\* Values given to the date converter.
DateValues ==
    {None, ADate, ADateTime, IntVal("5"), StrVal("2024-01-02"),
     StrVal("2024-01-02T03:04:05"), StrVal("2024-01-02T03:04:05Z"),
     StrVal("not a date"), StrVal("")}

\* Values given to the choice converters.
ChoiceValues == {None, IntVal("5"), StrVal("abc"), StrVal("zzz"), BoolVal(TRUE)}

ChoiceLists ==
    {EmptyList, ListVal(<<None>>), ListVal(<<StrVal("abc"), None, StrVal("zzz")>>),
     ListVal(<<IntVal("5"), StrVal("abc"), StrVal("abc")>>)}

\* Structured phone values: the number under one of its aliases or absent,
\* the type under one of its aliases and in one of its encodings or absent,
\* the country and the extension given or absent.
PhoneNumbers ==
    {<<>>, << <<"phone_number", StrVal("555-1234")>> >>, << <<"number", StrVal("555-1234")>> >>,
     << <<"phone", StrVal("555-1234")>> >>, << <<"value", IntVal("5")>> >>}

PhoneTypes ==
    {<<>>} \cup
    { << <<k, v>> >> :
        k \in {"phone_type", "type"},
        v \in {IntVal("5"), IntVal("0"), StrVal("5"), StrVal("mobile"), StrVal("U+00B2"),
               None} }

PhoneRest ==
    {<<>>, << <<"phone_country", StrVal("DE")>>, <<"phone_extension", IntVal("5")>> >>,
     << <<"country", StrVal("DE")>>, <<"extension", StrVal("")>> >>}

PhoneDicts ==
    {DictVal(n \o ty \o r) : n \in PhoneNumbers, ty \in PhoneTypes, r \in PhoneRest}

PhoneValues ==
    PhoneDicts \cup
    {None, StrVal("555-1234"), StrVal(""), IntVal("5"), EmptyList,
     ListVal(<<StrVal("555-1234"), None, DictVal(<< <<"number", StrVal("555-9999")>>,
                                                    <<"type", StrVal("5")>> >>)>>)}

PhoneOptions ==
    {EmptyMap, [default_country |-> StrVal("DE"), default_type |-> IntVal("1")]}

\* A sync definition with every kind of rule: a has a typed rule and a legacy
\* transform, b, c, f and g a legacy transform (choice, date, number and a
\* tag that is none of the three), d, h and p a typed rule, e no rule.
MapperConfig ==
    [name |-> "contacts", primary_key |-> "id",
     table_id |-> "tbl_contacts",
     field_mappings |-> << <<"id", "ext_id">>, <<"a", "amount">>, <<"b", "status">>,
                           <<"c", "due">>, <<"d", "date">>, <<"e", "note">>,
                           <<"f", "total">>, <<"g", "flag">>, <<"p", "phone">> >>,
     field_types |-> [a |-> [type |-> "number"],
                      d |-> [type |-> "date", include_time |-> TRUE],
                      p |-> [type |-> "phonefield"]],
     transformations |-> [a |-> [type |-> "choice", value_map |-> StatusMap],
                          b |-> [type |-> "choice", value_map |-> StatusMap],
                          c |-> [type |-> "date", include_time |-> TRUE],
                          f |-> [type |-> "number"],
                          g |-> [type |-> "upper"]]]

MapperConfigs == {OrdersConfig, CustomersConfig, MapperConfig}

\* The source columns of the rows given to the mapper.
MapperFields == {"a", "b", "c", "d", "e", "f", "g"}

\* Rows: the key and one column with any scalar value, the key and every
\* column with the same value, a row with a column that is not mapped, a row
\* with a structured phone, and the rows of the source.
MapperRows ==
    SourceRows
    \cup { << <<"id", IntVal("1")>>, <<fld, v>> >> : fld \in MapperFields, v \in ScalarValues }
    \cup { << <<"id", IntVal("1")>>, <<"a", v>>, <<"b", v>>, <<"c", v>>, <<"d", v>>,
              <<"e", v>>, <<"f", v>>, <<"g", v>> >> : v \in ScalarValues }
    \cup { << <<"id", IntVal("1")>>, <<"unmapped", StrVal("abc")>>, <<"e", None>> >>,
           << <<"id", IntVal("1")>>, <<"d", ADate>>,
              <<"p", DictVal(<< <<"number", StrVal("555-1234")>>,
                                <<"type", StrVal("5")>> >>)>> >> }

\* The rows whose fingerprint is taken: those of at most three columns.
HashedRows == {r \in MapperRows : Len(r) <= 3}

Calls ==
    {Pending("convert", [value |-> v, field_type |-> ft, options |-> o]) :
        v \in {None, IntVal("5"), StrVal("abc"), ADateTime}, ft \in FieldTypes, o \in OptionSets}
    \cup {Pending("to_single_select", [value |-> v, value_map |-> m]) :
             v \in ChoiceValues, m \in {EmptyMap, StatusMap}}
    \cup {Pending("to_multiple_select", [value |-> v, value_map |-> m]) :
             v \in ChoiceValues \cup ChoiceLists, m \in {EmptyMap, StatusMap}}
    \cup {Pending("to_date", [value |-> v, options |-> o]) :
             v \in DateValues, o \in OptionSets}
    \cup {Pending("to_phone", [value |-> v, options |-> o]) :
             v \in PhoneValues, o \in PhoneOptions}
    \cup {Pending("map_record", [config |-> c, source_record |-> r]) :
             c \in MapperConfigs, r \in MapperRows}
    \cup {Pending("calculate_hash", [config |-> c, source_record |-> r]) :
             c \in MapperConfigs, r \in HashedRows}

InitCalls ==
    /\ syncs = MapperConfigs
    /\ source = {}
    /\ now = 0
    /\ sync_runs = <<>>
    /\ record_mappings = {}
    /\ sync_metadata = {}
    /\ smartsuite = <<>>
    /\ pc = [p \in Procs |-> "idle"]
    /\ loc = [p \in Procs |-> IdleLoc]
    /\ obs = [p \in Procs |-> IdleObs]
    /\ prev = [n \in Names |-> NoPrev]
    /\ boundary = [n \in Names |-> NoTime]
    /\ invocations = 0
    /\ faults = 0
    /\ call \in Calls

\* The call in hand is made and gives result.
Make(op, result) ==
    /\ call.op = op
    /\ ~call.done
    /\ call' = Returned(call, result)
    /\ UNCHANGED <<syncs, source, now, sync_runs, record_mappings, sync_metadata,
                   smartsuite, pc, loc, obs, prev, boundary, invocations, faults>>

\* SmartSuiteFieldConverter.convert(value, field_type, **options)
Convert ==
    /\ call.op = "convert"
    /\ Make("convert", convert(call.args.value, call.args.field_type, call.args.options))

\* SmartSuiteFieldConverter.to_single_select(value, value_map=value_map)
ToSingleSelect ==
    /\ call.op = "to_single_select"
    /\ Make("to_single_select", to_single_select(call.args.value, call.args.value_map))

\* SmartSuiteFieldConverter.to_multiple_select(value, value_map=value_map)
ToMultipleSelect ==
    /\ call.op = "to_multiple_select"
    /\ Make("to_multiple_select", to_multiple_select(call.args.value, call.args.value_map))

\* SmartSuiteFieldConverter.to_date(value, **options)
ToDate ==
    /\ call.op = "to_date"
    /\ Make("to_date", to_date(call.args.value, call.args.options))

\* SmartSuiteFieldConverter.to_phone(value, **options)
ToPhone ==
    /\ call.op = "to_phone"
    /\ Make("to_phone", to_phone(call.args.value, call.args.options))

\* config.map_record(source_record)
MapRecord ==
    /\ call.op = "map_record"
    /\ Make("map_record", map_record(call.args.config, call.args.source_record))

\* self.state.calculate_hash(config.map_record(source_record))
CalculateHash ==
    /\ call.op = "calculate_hash"
    /\ LET mapped_record == map_record(call.args.config, call.args.source_record)
       IN  Make("calculate_hash",
                IF mapped_record.ok THEN Ok(calculate_hash(mapped_record.val))
                ELSE mapped_record)

NextCalls ==
    \/ Convert
    \/ ToSingleSelect
    \/ ToMultipleSelect
    \/ ToDate
    \/ ToPhone
    \/ MapRecord
    \/ CalculateHash

SpecCalls == InitCalls /\ [][NextCalls]_vars

(***************************************************************************)
(* config_loader.py and main.py: the configuration file is loaded before   *)
(* the engine is created.  call holds the parsed file (config_data) and,   *)
(* once get_enabled_syncs was called, what it returned or raised; syncs is *)
(* the list run_once loops over, empty until then.                         *)
(***************************************************************************)
\* The dict of a sync definition in the file, with every required key; the
\* key enabled is given only when the definition is disabled.
SyncDict(c, enabled) ==
    LET d == [name |-> c.name,
              source |-> [query |-> "SELECT * FROM " \o c.name,
                          primary_key |-> c.primary_key],
              destination |-> [table_id |-> c.table_id,
                               field_mappings |-> c.field_mappings,
                               external_id_field |-> "ext_id",
                               field_types |-> c.field_types,
                               transformations |-> c.transformations]]
    IN  IF enabled THEN d ELSE [k \in DOMAIN d \cup {"enabled"} |->
                                   IF k = "enabled" THEN FALSE ELSE d[k]]

\* d without the key k.
Without(d, k) == [x \in DOMAIN d \ {k} |-> d[x]]

\* The keys SyncConfig.__init__ reads with [], as <<section, key>>.
RequiredKeys ==
    { <<"", "name">>, <<"", "source">>, <<"source", "query">>,
      <<"source", "primary_key">>, <<"", "destination">>,
      <<"destination", "table_id">>, <<"destination", "field_mappings">>,
      <<"destination", "external_id_field">> }

\* d without the required key path.
Lacking(d, path) ==
    IF path[1] = "" THEN Without(d, path[2])
    ELSE [d EXCEPT ![path[1]] = Without(@, path[2])]

\* The path is missing from d.
Lacks(d, path) ==
    IF path[1] = "" THEN path[2] \notin DOMAIN d
    ELSE path[1] \in DOMAIN d /\ path[2] \notin DOMAIN d[path[1]]

KeyError(k) == "KeyError: '" \o k \o "'"

\* SyncConfig(config_dict): the first required key that is missing raises.
SyncConfig(config_dict) ==
    IF "name" \notin DOMAIN config_dict THEN Raise(KeyError("name"))
    ELSE IF "source" \notin DOMAIN config_dict THEN Raise(KeyError("source"))
    ELSE IF "query" \notin DOMAIN config_dict.source THEN Raise(KeyError("query"))
    ELSE IF "primary_key" \notin DOMAIN config_dict.source
         THEN Raise(KeyError("primary_key"))
    ELSE IF "destination" \notin DOMAIN config_dict THEN Raise(KeyError("destination"))
    ELSE IF "table_id" \notin DOMAIN config_dict.destination
         THEN Raise(KeyError("table_id"))
    ELSE IF "field_mappings" \notin DOMAIN config_dict.destination
         THEN Raise(KeyError("field_mappings"))
    ELSE IF "external_id_field" \notin DOMAIN config_dict.destination
         THEN Raise(KeyError("external_id_field"))
    ELSE LET source_ == config_dict.source
             destination == config_dict.destination
         IN  Ok([name |-> config_dict.name,
                 enabled |-> IF "enabled" \in DOMAIN config_dict
                             THEN config_dict.enabled ELSE TRUE,
                 query |-> source_.query,
                 primary_key |-> source_.primary_key,
                 table_id |-> destination.table_id,
                 field_mappings |-> destination.field_mappings,
                 external_id_field |-> destination.external_id_field,
                 field_types |-> IF "field_types" \in DOMAIN destination
                                 THEN destination.field_types ELSE EmptyMap,
                 transformations |-> IF "transformations" \in DOMAIN destination
                                     THEN destination.transformations ELSE EmptyMap])

\* config_data.get('syncs', [])
SyncDicts(config_data) ==
    IF "syncs" \in DOMAIN config_data THEN config_data.syncs ELSE <<>>

\* A loop that logs the failure of a definition and goes on to the next one.
RECURSIVE LoadedSkipping(_, _)
LoadedSkipping(sync_dicts, n) ==
    IF n = 0 THEN <<>>
    ELSE LET sync_config == SyncConfig(sync_dicts[n])
         IN  IF sync_config.ok
             THEN Append(LoadedSkipping(sync_dicts, n - 1), sync_config.val)
             ELSE LoadedSkipping(sync_dicts, n - 1)

\* load without the raise of its handler.
load_skips_invalid(config_data) ==
    Ok(LoadedSkipping(SyncDicts(config_data), Len(SyncDicts(config_data))))

\* for sync_dict in ...: the first n definitions, or the failure of the first
\* one that fails (the handler logs it and raises it again).
RECURSIVE Loaded(_, _)
Loaded(sync_dicts, n) ==
    IF n = 0 THEN Ok(<<>>)
    ELSE LET syncs_ == Loaded(sync_dicts, n - 1)
         IN  IF ~syncs_.ok THEN syncs_
             ELSE LET sync_config == SyncConfig(sync_dicts[n])
                  IN  IF sync_config.ok THEN Ok(Append(syncs_.val, sync_config.val))
                      ELSE sync_config

load(config_data) == Loaded(SyncDicts(config_data), Len(SyncDicts(config_data)))

IsEnabled(sync) == sync.enabled

get_enabled_syncs(config_data) ==
    LET all_syncs == load(config_data)
    IN  IF all_syncs.ok THEN Ok(SelectSeq(all_syncs.val, IsEnabled)) ELSE all_syncs

\* The attributes of a SyncConfig that sync() reads.
Attributes(sync_config) ==
    [name |-> sync_config.name, primary_key |-> sync_config.primary_key,
     table_id |-> sync_config.table_id, field_mappings |-> sync_config.field_mappings,
     field_types |-> sync_config.field_types,
     transformations |-> sync_config.transformations]

\* The definitions a file may hold: complete or lacking one required key,
\* enabled or not.
DefinitionDicts ==
    LET complete == {SyncDict(c, enabled) : c \in Configs, enabled \in BOOLEAN}
    IN  complete \cup {Lacking(d, path) : d \in complete, path \in RequiredKeys}

\* The files: no syncs key, or a list of at most MaxDefinitions definitions.
ConfigFiles ==
    {EmptyMap} \cup {[syncs |-> list] : list \in SeqsUpTo(DefinitionDicts, MaxDefinitions)}

\* run_once on a store with an earlier run of "orders" (as run_scheduled
\* above), before the file is loaded.
InitMain ==
    /\ syncs = {}
    /\ source = {Row(IntVal("1"), IntVal("5"))}
    /\ now = 0
    /\ sync_runs = complete_sync_run(start_sync_run(<<>>, "orders", 0).val, 1, "success",
                                     1, 1, 0, 0, NoMessage, 0)
    /\ record_mappings = save_record_mapping({}, "orders", "1", 1,
                                             calculate_hash(EarlierPayload), 0)
    /\ sync_metadata = update_last_sync_time({}, "orders", 0, 0)
    /\ smartsuite = <<[table_id |-> OrdersConfig.table_id, data |-> EarlierPayload]>>
    /\ pc = [p \in Procs |-> "idle"]
    /\ loc = [p \in Procs |-> IdleLoc]
    /\ obs = [p \in Procs |-> IdleObs]
    /\ prev = [n \in Names |->
                 IF n = "orders"
                 THEN [outcome |-> "returned", source_records |-> <<EarlierRow>>,
                       stats |-> Count(ZeroStats, "created"), rows |-> <<EarlierEntry>>]
                 ELSE NoPrev]
    /\ boundary = [n \in Names |-> IF n = "orders" THEN 0 ELSE NoTime]
    /\ invocations = 0
    /\ faults = 0
    /\ \E config_data \in ConfigFiles :
          call = Pending("get_enabled_syncs", [config_data |-> config_data])

\* syncs = config_loader.get_enabled_syncs(): what it raises ends run_once
\* before the engine is created; the list it returns is the one looped over.
GetEnabledSyncs ==
    /\ call.op = "get_enabled_syncs"
    /\ ~call.done
    /\ LET result == get_enabled_syncs(call.args.config_data)
       IN  /\ call' = Returned(call, result)
           /\ syncs' = IF result.ok
                       THEN {Attributes(result.val[i]) : i \in 1..Len(result.val)}
                       ELSE {}
    /\ UNCHANGED <<source, now, sync_runs, record_mappings, sync_metadata, smartsuite,
                   pc, loc, obs, prev, boundary, invocations, faults>>

NextMain ==
    \/ GetEnabledSyncs
    \/ Next

SpecMain == InitMain /\ [][NextMain]_vars

(***************************************************************************)
(* The properties.                                                         *)
(***************************************************************************)
\* The rows an invocation has reached, and what was stored for each as it was
\* reached.
Reached(p) == 1..Len(obs[p].rows)

Entry(p, k) == obs[p].rows[k]

\* The payload and the fingerprint of row k of the batch in hand.
PayloadOf(p, k) == map_record(ConfigOf(loc[p].config), loc[p].source_records[k])

HashOf(p, k) == calculate_hash(PayloadOf(p, k).val)

\* The mapping rows stored now for the key of row k.
StoredNow(p, k) ==
    {m \in record_mappings :
        m.sync_name = loc[p].config /\ m.source_id = Entry(p, k).source_id}

\* The lookup of the row returned (no fault before the branch was taken).
LookedUp(e) == e.branch \notin {"key fault", "conversion fault", "lookup fault"}

Unmapped(e) == LookedUp(e) /\ e.stored = {}

Changed(e) == LookedUp(e) /\ e.stored # {} /\ \A m \in e.stored : m.data_hash # e.data_hash

Unchanged(e) == LookedUp(e) /\ e.stored # {} /\ \A m \in e.stored : m.data_hash = e.data_hash

\* Rows of the batch with the same stringified key map to the same payload.
ConsistentKeys(config, batch) ==
    \A i, j \in 1..Len(batch) :
        SourceId(config, batch[i]) = SourceId(config, batch[j])
            => map_record(config, batch[i]) = map_record(config, batch[j])

\* p runs again on the rows of the last run of its sync name, which returned
\* without an error.
RunsAgain(p) ==
    /\ loc[p].run_id # 0
    /\ loc[p].source_records # <<>>
    /\ prev[loc[p].config].outcome = "returned"
    /\ prev[loc[p].config].source_records = loc[p].source_records

\* C1 as stated, for runs in which nothing raises (no fault of the store or of
\* a collaborator, no row counted as an error in either run): when sync() runs
\* twice in succession for one sync name on the same rows, whatever the batch,
\* the second run makes no create and no update call and classifies every row
\* skipped.
C1_SecondRunSkipsAnyBatch ==
    \A p \in Procs :
        (/\ pc[p] = "returned"
         /\ faults = 0
         /\ RunsAgain(p)
         /\ prev[loc[p].config].stats.errors = 0
         /\ loc[p].stats.errors = 0)
            => /\ \A k \in Reached(p) : Entry(p, k).creates = 0 /\ Entry(p, k).updates = 0
               /\ loc[p].stats.skipped = Len(loc[p].source_records)

\* C1 amended: when sync() runs twice in succession for one sync name on the
\* same rows, the first run returned with errors = 0 and rows that share a
\* source key map to the same payload, then the second run makes no create
\* and no update call, every row it handles is skipped unless the row itself
\* raises, and all are skipped when the second run counts no error.
C1_SecondRunSkips ==
    \A p \in Procs :
        (/\ RunsAgain(p)
         /\ prev[loc[p].config].stats.errors = 0
         /\ ConsistentKeys(ConfigOf(loc[p].config), loc[p].source_records))
            => /\ \A k \in Reached(p) :
                    /\ Entry(p, k).creates = 0
                    /\ Entry(p, k).updates = 0
                    /\ Entry(p, k).saves = 0
                    /\ Entry(p, k).result \in {"skipped", "error"}
               /\ smartsuite = obs[p].smartsuite_before
               /\ (pc[p] = "returned" /\ loc[p].stats.errors = 0)
                    => loc[p].stats.skipped = Len(loc[p].source_records)

C1_Witness ==
    \E p \in Procs :
        /\ pc[p] = "returned"
        /\ RunsAgain(p)
        /\ prev[loc[p].config].stats.errors = 0
        /\ ConsistentKeys(ConfigOf(loc[p].config), loc[p].source_records)
        /\ Len(loc[p].source_records) = 2
        /\ loc[p].stats.skipped = 2

\* C2: a row whose (sync name, stringified key) has no mapping gets one create
\* call and no update call; once the create returned, one mapping upsert
\* stores the identifier the create returned and the fingerprint of the mapped
\* payload; the row is classified created (and only such a row is); it ends
\* otherwise only when the create or the upsert raised.
C2_CreateTransition ==
    \A p \in Procs : \A k \in Reached(p) :
        LET e == Entry(p, k)
        IN  /\ e.result = "created" => Unmapped(e)
            /\ Unmapped(e) =>
                /\ e.updates = 0
                /\ e.creates = IF e.result = "pending" /\ pc[p] = "create_record" THEN 0 ELSE 1
                /\ e.result \in {"pending", "created", "error"}
                /\ e.created_id # 0 =>
                     /\ e.created_id \in 1..Len(smartsuite)
                     /\ e.created_id > Len(obs[p].smartsuite_before)
                /\ e.saves <= 1
                /\ e.saves = 1 =>
                     /\ e.created_id # 0
                     /\ e.saved_id = e.created_id
                     /\ e.saved_hash = HashOf(p, k)
                /\ e.result = "created" =>
                     /\ e.saves = 1
                     /\ k = Len(obs[p].rows) =>
                          /\ Cardinality(StoredNow(p, k)) = 1
                          /\ \A m \in StoredNow(p, k) :
                                /\ m.smartsuite_record_id = e.created_id
                                /\ m.data_hash = HashOf(p, k)
                          /\ smartsuite[e.created_id].data = PayloadOf(p, k).val
                /\ e.result = "error" => faults > 0

C2_Witness ==
    \E p \in Procs :
        /\ obs[p].rows # <<>>
        /\ Unmapped(Last(obs[p]))
        /\ Last(obs[p]).result = "created"

\* C3: a row whose mapping holds another fingerprint gets one update call
\* addressed to the stored destination identifier and no create call; once
\* the update returned, one mapping upsert replaces the fingerprint and keeps
\* the destination identifier; the row is classified updated (and only such a
\* row is); it ends otherwise only when the update or the upsert raised.
C3_UpdateTransition ==
    \A p \in Procs : \A k \in Reached(p) :
        LET e == Entry(p, k)
        IN  /\ e.result = "updated" => Changed(e)
            /\ Changed(e) =>
                /\ e.creates = 0
                /\ e.updates = IF e.result = "pending" /\ pc[p] = "update_record" THEN 0 ELSE 1
                /\ e.result \in {"pending", "updated", "error"}
                /\ e.updates = 1 =>
                     \A m \in e.stored : e.update_id = m.smartsuite_record_id
                /\ e.saves <= 1
                /\ e.saves = 1 =>
                     /\ e.updates = 1
                     /\ \A m \in e.stored : e.saved_id = m.smartsuite_record_id
                     /\ e.saved_hash = HashOf(p, k)
                /\ e.result = "updated" =>
                     /\ e.saves = 1
                     /\ k = Len(obs[p].rows) =>
                          /\ Cardinality(StoredNow(p, k)) = 1
                          /\ \A m \in StoredNow(p, k) : \A old \in e.stored :
                                /\ m.smartsuite_record_id = old.smartsuite_record_id
                                /\ m.data_hash = HashOf(p, k)
                                /\ m.data_hash # old.data_hash
                                /\ m.created_at = old.created_at
                                /\ smartsuite[m.smartsuite_record_id].data = PayloadOf(p, k).val
                /\ e.result = "error" => faults > 0

C3_Witness ==
    \E p \in Procs :
        /\ obs[p].rows # <<>>
        /\ Changed(Last(obs[p]))
        /\ Last(obs[p]).result = "updated"

\* C4: a row whose mapping holds the same fingerprint gets no destination
\* call and no mapping write: the mapping row (destination identifier,
\* fingerprint, created_at, updated_at) and the destination stay as they
\* were; the row is classified skipped (and only such a row is).
C4_SkipTransition ==
    \A p \in Procs : \A k \in Reached(p) :
        LET e == Entry(p, k)
        IN  /\ e.result = "skipped" => Unchanged(e)
            /\ Unchanged(e) =>
                /\ e.creates = 0
                /\ e.updates = 0
                /\ e.saves = 0
                /\ e.result = "skipped"
                /\ k = Len(obs[p].rows) => StoredNow(p, k) = e.stored

C4_Witness ==
    \E p \in Procs :
        /\ obs[p].rows # <<>>
        /\ Unchanged(Last(obs[p]))
        /\ Last(obs[p]).result = "skipped"
        /\ StoredNow(p, Len(obs[p].rows)) = Last(obs[p]).stored


\* The loop of p is over: every row of a non-empty batch has been handled.
AfterLoop(p) ==
    \/ pc[p] \in {"read_clock", "update_last", "complete_success"}
    \/ pc[p] = "returned" /\ loc[p].source_records # <<>>
    \/ /\ pc[p] \in {"except", "raised"}
       /\ loc[p].source_records # <<>>
       /\ obs[p].fault_at \in {"update_last_sync_time", "complete_sync_run"}

\* The rows p has counted as errors, and the rows it has classified.
ErrorRows(p) == {k \in Reached(p) : Entry(p, k).result = "error"}

ClassifiedRows(p) ==
    {k \in Reached(p) : Entry(p, k).result \in {"created", "updated", "skipped"}}

\* The run row of the invocation of p.
RunRow(p) == sync_runs[loc[p].run_id]

\* C5: a fault raised while a row is reconciled (key, conversion, lookup,
\* destination create or update, mapping write) adds one to the error counter
\* and does not end the loop: every row before the one in hand has been
\* classified or counted as an error, once the loop is over every fetched row
\* has been, the run leaves the try block only on a fault of a run-level call,
\* and a run that returns has the persisted status success, with as many
\* errors in the returned counters as rows raised.
C5_RunIsolation ==
    \A p \in Procs :
        /\ loc[p].stats.errors = Cardinality(ErrorRows(p))
        /\ loc[p].stats.processed = Cardinality(ClassifiedRows(p))
        /\ \A k \in Reached(p) : k < Len(obs[p].rows) => Entry(p, k).result # "pending"
        /\ pc[p] = "record" =>
              /\ loc[p].i = Len(obs[p].rows) + 1
              /\ loc[p].i <= Len(loc[p].source_records)
        /\ AfterLoop(p) =>
              /\ Len(obs[p].rows) = Len(loc[p].source_records)
              /\ ErrorRows(p) \cup ClassifiedRows(p) = 1..Len(loc[p].source_records)
        /\ pc[p] \in {"except", "raised"} => obs[p].fault_at # "none"
        /\ (pc[p] = "returned" /\ loc[p].source_records # <<>>) =>
              /\ RunRow(p).status = "success"
              /\ RunRow(p).error_message = NoMessage
              /\ RunRow(p).records_processed = Cardinality(ClassifiedRows(p))

C5_Witness ==
    \E p \in Procs :
        /\ pc[p] = "returned"
        /\ Len(obs[p].rows) = 2
        /\ Entry(p, 1).result = "error"
        /\ Entry(p, 2).result = "created"
        /\ loc[p].stats.errors = 1
        /\ RunRow(p).status = "success"

\* C6: for a run that returns with no row counted as an error, the returned
\* counters are: processed = the number of fetched rows, created = the number
\* of rows that had no mapping when they were reached, updated = the number
\* whose mapping had another fingerprint, skipped = the number whose mapping
\* had the same fingerprint, errors = 0; the run row holds the same numbers.
C6_CountersClassify ==
    \A p \in Procs :
        (pc[p] = "returned" /\ loc[p].stats.errors = 0) =>
            LET stats == loc[p].stats
            IN  /\ Len(obs[p].rows) = Len(loc[p].source_records)
                /\ stats.processed = Len(loc[p].source_records)
                /\ stats.created = Cardinality({k \in Reached(p) : Unmapped(Entry(p, k))})
                /\ stats.updated = Cardinality({k \in Reached(p) : Changed(Entry(p, k))})
                /\ stats.skipped = Cardinality({k \in Reached(p) : Unchanged(Entry(p, k))})
                /\ stats.processed = stats.created + stats.updated + stats.skipped
                /\ RunRow(p).records_processed = stats.processed
                /\ RunRow(p).records_created = stats.created
                /\ RunRow(p).records_updated = stats.updated
                /\ RunRow(p).records_skipped = stats.skipped

C6_Witness ==
    \E p \in Procs :
        /\ pc[p] = "returned"
        /\ loc[p].stats = [processed |-> 2, created |-> 0, updated |-> 1, skipped |-> 1,
                           errors |-> 0]
        /\ Unchanged(Entry(p, 1))
        /\ Changed(Entry(p, 2))

\* The source returned an empty sequence to p.
EmptyFetch(p) ==
    \/ pc[p] = "complete_empty"
    \/ pc[p] = "returned" /\ loc[p].source_records = <<>>
    \/ /\ pc[p] \in {"except", "raised"}
       /\ loc[p].source_records = <<>>
       /\ obs[p].fault_at = "complete_sync_run"

\* C7: when the source returns an empty sequence the run handles no row, makes
\* no destination call and no mapping write, its counters are all zero, and
\* when it returns its run row has status success with zero records (it does
\* not return only when its complete_sync_run raised).
C7_EmptyFetch ==
    \A p \in Procs :
        EmptyFetch(p) =>
            /\ obs[p].rows = <<>>
            /\ smartsuite = obs[p].smartsuite_before
            /\ record_mappings = obs[p].mappings_before
            /\ loc[p].stats = ZeroStats
            /\ pc[p] \in {"except", "raised"} => faults > 0
            /\ pc[p] = "returned" =>
                  /\ RunRow(p).status = "success"
                  /\ RunRow(p).records_processed = 0
                  /\ RunRow(p).records_created = 0
                  /\ RunRow(p).records_updated = 0
                  /\ RunRow(p).records_skipped = 0
                  /\ RunRow(p).error_message = NoMessage

C7_Witness ==
    \E p \in Procs :
        /\ pc[p] = "returned"
        /\ loc[p].run_id # 0
        /\ loc[p].source_records = <<>>
        /\ record_mappings # {}
        /\ RunRow(p).status = "success"

\* C8 as stated: when sync() has returned or raised for a started run, the
\* engine has called complete_sync_run exactly once for it and its run row has
\* a terminal status, on every path, the paths on which a call of the store in
\* the finalizing step raises included.
C8_CompleteOnce ==
    \A p \in Procs :
        (pc[p] \in {"returned", "raised"} /\ loc[p].run_id # 0) =>
            /\ obs[p].complete_calls = 1
            /\ RunRow(p).status \in {"success", "failed"}

\* C9: when the source query raises, the run handles no row, makes no
\* destination call and no mapping write, the handler calls complete_sync_run
\* once and, when that call returns, the run row has status failed and the
\* message of the fault of the query, and that fault is what sync() raises.
C9_FetchFailure ==
    \A p \in Procs :
        (pc[p] \in {"except", "raised"} /\ obs[p].fault_at = "execute_query") =>
            /\ obs[p].rows = <<>>
            /\ smartsuite = obs[p].smartsuite_before
            /\ record_mappings = obs[p].mappings_before
            /\ loc[p].stats = ZeroStats
            /\ pc[p] = "except" => loc[p].exc = QueryFault /\ obs[p].complete_calls = 0
            /\ pc[p] = "raised" =>
                  /\ obs[p].complete_calls = 1
                  /\ obs[p].completions = 1 =>
                        /\ RunRow(p).status = "failed"
                        /\ RunRow(p).error_message = QueryFault
                        /\ loc[p].exc = QueryFault
                  /\ obs[p].completions = 0 => faults > 1

C9_Witness ==
    \E p \in Procs :
        /\ pc[p] = "raised"
        /\ obs[p].fault_at = "execute_query"
        /\ loc[p].exc = QueryFault
        /\ RunRow(p).status = "failed"
        /\ RunRow(p).error_message = QueryFault

\* C10 as stated: whenever sync() raises to its caller (a fault of the source
\* query, a fault of the state store, a duplicate run key at start), a run row
\* of that invocation exists with status failed and a message.
C10_RaisedIsAudited ==
    \A p \in Procs :
        pc[p] = "raised" =>
            /\ loc[p].run_id # 0
            /\ RunRow(p).status = "failed"
            /\ RunRow(p).error_message # NoMessage


\* The (sync name, source key) pairs that have a mapping row.
MappedKeys == {<<m.sync_name, m.source_id>> : m \in record_mappings}

\* C11: in every reachable state there is at most one mapping row per
\* (sync name, source key), and no step removes the mapping of a key: the set
\* of mapped keys only grows.
C11_MappingLedger ==
    /\ [](\A m1, m2 \in record_mappings :
            (m1.sync_name = m2.sync_name /\ m1.source_id = m2.source_id) => m1 = m2)
    /\ [][MappedKeys \subseteq MappedKeys']_vars

C11_Witness ==
    \E p \in Procs :
        /\ invocations = 2
        /\ obs[p].rows # <<>>
        /\ Last(obs[p]).result = "updated"
        /\ Cardinality(StoredNow(p, Len(obs[p].rows))) = 1
        /\ Cardinality(MappedKeys) = Cardinality(record_mappings)


\* C12 as stated: every run that ends with status success, a run whose
\* fetched batch was empty included, has upserted the metadata row of its
\* sync name.
C12_SuccessUpsertsMetadata ==
    \A p \in Procs :
        (pc[p] = "returned" /\ RunRow(p).status = "success") =>
            /\ obs[p].metadata_writes = 1
            /\ \E m \in sync_metadata : m.sync_name = loc[p].config


\* C13: a run whose loop finished with one or more rows counted as errors,
\* every row included, is persisted with status success; the number of errors
\* is in the returned counters only: the run row has no column for it, its
\* counters are those of the rows that were classified, and its error_message
\* stays empty.
C13_PartialSuccess ==
    \A p \in Procs :
        (pc[p] = "returned" /\ loc[p].stats.errors > 0) =>
            /\ RunRow(p).status = "success"
            /\ RunRow(p).error_message = NoMessage
            /\ DOMAIN RunRow(p) = RunColumns
            /\ RunRow(p).records_processed = loc[p].stats.processed
            /\ RunRow(p).records_created = loc[p].stats.created
            /\ RunRow(p).records_updated = loc[p].stats.updated
            /\ RunRow(p).records_skipped = loc[p].stats.skipped
            /\ RunRow(p).records_processed + loc[p].stats.errors = Len(loc[p].source_records)

C13_Witness ==
    \E p \in Procs :
        /\ pc[p] = "returned"
        /\ Len(loc[p].source_records) = 2
        /\ loc[p].stats.errors = 2
        /\ RunRow(p).status = "success"
        /\ RunRow(p).records_processed = 0


\* C14: a run reads the boundary after it inserted its run row and before it
\* fetches; the last_sync_time parameter of its query is what it read, which
\* is the sync_time of the most recent update_last_sync_time for its sync name
\* that returned, and null when there was none.
C14_BoundaryHandOff ==
    \A p \in Procs :
        /\ pc[p] = "get_last" =>
              /\ loc[p].run_id \in 1..Len(sync_runs)
              /\ RunRow(p).sync_name = loc[p].config
              /\ RunRow(p).status = "running"
              /\ obs[p].queries = <<>>
        /\ pc[p] = "fetch" =>
              /\ obs[p].queries = <<>>
              /\ loc[p].last_sync_time = boundary[loc[p].config]
        /\ Len(obs[p].queries) <= 1
        /\ obs[p].queries # <<>> =>
              /\ loc[p].run_id \in 1..Len(sync_runs)
              /\ obs[p].queries[1] = loc[p].last_sync_time
              /\ obs[p].metadata_writes = 0 => obs[p].queries[1] = boundary[loc[p].config]
        /\ \A n \in Names :
              (\A m \in sync_metadata : m.sync_name # n) => boundary[n] = NoTime

C14_Witness ==
    \E p \in Procs :
        /\ obs[p].queries # <<>>
        /\ obs[p].metadata_writes = 0
        /\ obs[p].queries[1] # NoTime
        /\ obs[p].queries[1] = boundary[loc[p].config]
        /\ now > obs[p].queries[1]


\* The destination calls (create or update) made for entry e, and those made
\* by p for the rows whose source key is key.
Mutations(e) == e.creates + e.updates

RECURSIVE MutationsFor(_, _, _)
MutationsFor(p, key, n) ==
    IF n = 0 THEN 0
    ELSE MutationsFor(p, key, n - 1)
            + (IF Entry(p, n).source_id = key THEN Mutations(Entry(p, n)) ELSE 0)

\* The rows of batch have different stringified source keys.
DistinctKeys(config, batch) ==
    \A i, j \in 1..Len(batch) :
        (i # j /\ SourceId(config, batch[i]).ok)
            => SourceId(config, batch[i]) # SourceId(config, batch[j])

\* C15 as stated, for runs in which nothing raises: within one run at most
\* one destination mutation (create or update) is issued per source key.
C15_OncePerKey ==
    \A p \in Procs : \A k \in Reached(p) :
        faults = 0 => MutationsFor(p, Entry(p, k).source_id, Len(obs[p].rows)) <= 1

\* C15 amended: within one run every fetched row is handled once, at most one
\* destination mutation (create or update) is issued for it, a row classified
\* created or updated had exactly one and a skipped row none; when the rows of
\* the batch have different source keys that is at most one mutation per
\* source key.
C15_OncePerRow ==
    \A p \in Procs :
        /\ Len(obs[p].rows) <= Len(loc[p].source_records)
        /\ \A k \in Reached(p) :
              LET e == Entry(p, k)
                  key == SourceId(ConfigOf(loc[p].config), loc[p].source_records[k])
              IN  /\ key.ok => e.source_id = key.val
                  /\ Mutations(e) <= 1
                  /\ e.result \in {"created", "updated"} => Mutations(e) = 1
                  /\ e.result = "created" => e.creates = 1
                  /\ e.result = "updated" => e.updates = 1
                  /\ e.result = "skipped" => Mutations(e) = 0
                  /\ DistinctKeys(ConfigOf(loc[p].config), loc[p].source_records) =>
                        MutationsFor(p, e.source_id, Len(obs[p].rows)) <= 1

C15_Witness ==
    \E p \in Procs :
        /\ pc[p] = "returned"
        /\ Len(obs[p].rows) = 2
        /\ Entry(p, 1).source_id = Entry(p, 2).source_id
        /\ Entry(p, 1).result = "created"
        /\ Entry(p, 2).result = "updated"


\* The rows of sync name n in the three tables, and its destination records.
RowsOf(n) ==
    [mappings |-> {m \in record_mappings : m.sync_name = n},
     runs |-> {<<id, sync_runs[id]>> :
                  id \in {i \in 1..Len(sync_runs) : sync_runs[i].sync_name = n}},
     metadata |-> {m \in sync_metadata : m.sync_name = n},
     records |-> {<<id, smartsuite[id]>> :
                     id \in {i \in 1..Len(smartsuite) :
                                smartsuite[i].table_id = ConfigOf(n).table_id}}]

\* Worker p takes the step.
Moved(p) == pc'[p] # pc[p] \/ loc'[p] # loc[p]

\* What p found for a row is the mapping row of its own sync name.
ReadsOwnRows(p) ==
    /\ pc[p] = "fetch" => loc[p].last_sync_time = boundary[loc[p].config]
    /\ \A k \in Reached(p) :
          LET e == Entry(p, k)
          IN  LookedUp(e) =>
                 /\ e.found.found <=> e.stored # {}
                 /\ e.found.found =>
                       \E m \in e.stored :
                          /\ m.sync_name = loc[p].config
                          /\ m.smartsuite_record_id = e.found.smartsuite_record_id
                          /\ m.data_hash = e.found.data_hash

\* The counters and the mapping rows of a run of p that returned are those its
\* own rows determine.
AsWhenAlone(p) ==
    pc[p] = "returned" =>
        /\ loc[p].stats.created = Cardinality({k \in Reached(p) :
                                      Unmapped(Entry(p, k)) /\ Entry(p, k).result # "error"})
        /\ loc[p].stats.updated = Cardinality({k \in Reached(p) :
                                      Changed(Entry(p, k)) /\ Entry(p, k).result # "error"})
        /\ loc[p].stats.skipped = Cardinality({k \in Reached(p) : Unchanged(Entry(p, k))})
        /\ \A k \in Reached(p) :
              Entry(p, k).result \in {"created", "updated", "skipped"} =>
                 /\ Cardinality(StoredNow(p, k)) = 1
                 /\ (\A j \in Reached(p) :
                        (j > k /\ Entry(p, j).source_id = Entry(p, k).source_id)
                            => Entry(p, j).result \in {"skipped", "error"})
                       => \A m \in StoredNow(p, k) : m.data_hash = Entry(p, k).data_hash

\* C16: under any interleaving of runs of different sync names on one state
\* store, a step of a run changes no mapping row, run row, metadata row or
\* destination record of another sync name, what a run reads are rows of its
\* own sync name, and the counters and mapping rows of a run that returned are
\* those its own rows determine.
C16_Independence ==
    /\ [](\A p \in Procs : ReadsOwnRows(p) /\ AsWhenAlone(p))
    /\ [][\A n \in Names :
             RowsOf(n)' # RowsOf(n) =>
                \E p \in Procs : Moved(p) /\ loc'[p].config = n]_vars

C16_Witness ==
    \E p, q \in Procs :
        /\ pc[p] = "returned" /\ pc[q] = "returned"
        /\ loc[p].config = "orders" /\ loc[q].config = "customers"
        /\ obs[p].rows # <<>> /\ obs[q].rows # <<>>
        /\ Entry(p, 1).source_id = Entry(q, 1).source_id
        /\ Entry(p, 1).result = "updated"
        /\ Entry(q, 1).result = "created"

\* C17: the scheduler holds one job per sync name, and at any time at most one
\* worker is executing sync() for a sync name: a trigger that fires while a
\* run of the name is in flight starts no second run.
C17_SameNameSerialized ==
    /\ \A j1, j2 \in Jobs : j1.args = j2.args => j1 = j2
    /\ \A c \in syncs : \E j \in Jobs : j.id = job_id(c) /\ j.args = c.name
    /\ \A p, q \in Procs :
          (p # q /\ pc[p] # "idle" /\ pc[q] # "idle") => loc[p].config # loc[q].config

C17_Witness ==
    \E j \in Jobs, p, w \in Procs :
        /\ pc[p] \notin {"idle", "returned", "raised"}
        /\ loc[p].config = j.args
        /\ pc[w] = "idle"
        /\ invocations < MaxRuns
        /\ ~ENABLED Trigger(j)

\* The run rows with the pair (sync_name, started_at).
RunsAt(sync_name, started_at) ==
    {id \in 1..Len(sync_runs) :
        sync_runs[id].sync_name = sync_name /\ sync_runs[id].started_at = started_at}

\* Worker p enters sync(): the step is its call of start_sync_run.
Starts(p) == pc[p] = "idle" /\ pc'[p] # "idle"

\* C20: start_sync_run inserts one row for the name with started_at the time
\* of the call, status running and every other column at its default, and
\* returns the id of that row; when a row with the same (sync name,
\* started_at) exists the call raises, and a call that raises inserts no row
\* and changes none; (sync name, started_at) is unique in every state.
C20_StartRun ==
    /\ [](\A id1, id2 \in 1..Len(sync_runs) :
             (/\ sync_runs[id1].sync_name = sync_runs[id2].sync_name
              /\ sync_runs[id1].started_at = sync_runs[id2].started_at) => id1 = id2)
    /\ [][\A p \in Procs :
             Starts(p) =>
                LET name == loc'[p].config
                IN  IF pc'[p] = "raised"
                    THEN /\ sync_runs' = sync_runs
                         /\ loc'[p].exc \in {DuplicateRun, StoreFault}
                         /\ loc'[p].exc = DuplicateRun => RunsAt(name, now) # {}
                    ELSE /\ RunsAt(name, now) = {}
                         /\ Len(sync_runs') = Len(sync_runs) + 1
                         /\ \A id \in 1..Len(sync_runs) : sync_runs'[id] = sync_runs[id]
                         /\ loc'[p].run_id = Len(sync_runs')
                         /\ DOMAIN sync_runs'[loc'[p].run_id] = RunColumns
                         /\ sync_runs'[loc'[p].run_id] =
                               [sync_name |-> name, started_at |-> now,
                                completed_at |-> NoTime, status |-> "running",
                                records_processed |-> 0, records_created |-> 0,
                                records_updated |-> 0, records_skipped |-> 0,
                                error_message |-> NoMessage]]_vars
    /\ [][(\A p \in Procs : ~Starts(p)) => Len(sync_runs') = Len(sync_runs)]_vars

\* The second run of a name started at the time of the first, no fault
\* injected: it raised and the table holds the one row of the first run.
C20_Witness ==
    \E p \in Procs :
        /\ pc[p] = "raised"
        /\ loc[p].exc = DuplicateRun
        /\ obs[p].fault_at = "start"
        /\ faults = 0
        /\ Cardinality(RunsAt(loc[p].config, now)) = 1

\* The rows of mappings for (sync_name, source_id).
MappingsIn(mappings, sync_name, source_id) ==
    {m \in mappings : m.sync_name = sync_name /\ m.source_id = source_id}

\* The step is a call of method by the client, and the call returned or raised.
Called(method) == pc'[Caller] = method /\ now' = now

CallReturned(method) == Called(method) /\ loc'[Caller].exc = NoFault

CallRaised(method) == Called(method) /\ loc'[Caller].exc # NoFault

\* C18: a save_record_mapping that returns leaves exactly one row for its
\* (sync name, source key), holding the destination identifier and the
\* fingerprint passed and updated_at the time of the call; created_at is the
\* time of the call when there was no row for the key and the created_at of
\* the row there was otherwise; every other row is unchanged, and a call
\* that raises changes nothing.
C18_UpsertKeepsCreatedAt ==
    /\ [][CallReturned("save_record_mapping") =>
             LET l == loc'[Caller]
                 old == MappingsIn(record_mappings, l.config, l.source_id)
                 new == MappingsIn(record_mappings', l.config, l.source_id)
             IN  /\ Cardinality(new) = 1
                 /\ \A m \in new :
                       /\ m.smartsuite_record_id = l.smartsuite_id
                       /\ m.data_hash = l.data_hash
                       /\ m.updated_at = now
                       /\ old = {} => m.created_at = now
                       /\ \A o \in old : m.created_at = o.created_at
                 /\ record_mappings' \ new = record_mappings \ old]_vars
    /\ [][CallRaised("save_record_mapping") => record_mappings' = record_mappings]_vars
    /\ [][~Called("save_record_mapping") => record_mappings' = record_mappings]_vars

\* A later save, at a later time, has put another destination identifier and
\* another fingerprint in the row of a key, and the other sync name has a
\* row for the same source key.
C18_Witness ==
    /\ pc[Caller] = "save_record_mapping"
    /\ loc[Caller].exc = NoFault
    /\ \E m \in MappingsIn(record_mappings, loc[Caller].config, loc[Caller].source_id) :
          /\ m.created_at < m.updated_at
          /\ m.updated_at = now
          /\ m.smartsuite_record_id = 2
          /\ m.data_hash = loc[Caller].data_hash
    /\ \E o \in record_mappings :
          /\ o.sync_name # loc[Caller].config
          /\ o.smartsuite_record_id = 1
          /\ o.data_hash # loc[Caller].data_hash

\* C19: get_last_sync_time(name) returns the sync_time of the last
\* update_last_sync_time(name, sync_time) that returned (nothing when there
\* was none); an update that returns leaves exactly one row for its name,
\* with last_sync_time the argument and last_successful_run the time of the
\* call, and leaves the rows of other names unchanged; an update that raises
\* and every other call change no metadata row.
C19_BoundaryRoundTrip ==
    /\ [](\A n \in Names :
             LET rows == {m \in sync_metadata : m.sync_name = n}
             IN  /\ get_last_sync_time(sync_metadata, n) = boundary[n]
                 /\ Cardinality(rows) = IF boundary[n] = NoTime THEN 0 ELSE 1)
    /\ []((pc[Caller] = "get_last_sync_time" /\ loc[Caller].exc = NoFault) =>
             loc[Caller].last_sync_time = boundary[loc[Caller].config])
    /\ [][CallReturned("update_last_sync_time") =>
             LET l == loc'[Caller]
             IN  /\ \E m \in sync_metadata' :
                       /\ m.sync_name = l.config
                       /\ m.last_sync_time = l.current_time
                       /\ m.last_successful_run = now
                 /\ {m \in sync_metadata' : m.sync_name # l.config}
                       = {m \in sync_metadata : m.sync_name # l.config}]_vars
    /\ [][~CallReturned("update_last_sync_time") => sync_metadata' = sync_metadata]_vars

\* get_last_sync_time returned the sync_time of an update of its name that
\* replaced an earlier one, at a time that differs from that sync_time, while
\* the other name has a row with another boundary.
C19_Witness ==
    /\ pc[Caller] = "get_last_sync_time"
    /\ loc[Caller].exc = NoFault
    /\ loc[Caller].last_sync_time # NoTime
    /\ \E m, o \in sync_metadata :
          /\ m.sync_name = loc[Caller].config
          /\ m.last_sync_time = loc[Caller].last_sync_time
          /\ m.last_successful_run # m.last_sync_time
          /\ m.last_successful_run = now
          /\ now > 0
          /\ o.sync_name # m.sync_name
          /\ o.last_sync_time # m.last_sync_time

\* The call in hand is a call of op that has been made.
Made(op) == call.op = op /\ call.done

\* The empty value documented for a field type.
DocumentedEmpty(field_type) ==
    CASE field_type \in {"multipleselectfield", "emailfield", "phonefield", "linkfield",
                         "linkedrecordfield", "memberfield"} -> ListVal(<<>>)
      [] field_type = "yesno" -> BoolVal(FALSE)
      [] field_type \in {"number", "currency", "percent"} -> StrVal("0")
      [] field_type = "date" ->
            DictVal(<< <<"date", None>>, <<"include_time", BoolVal(FALSE)>> >>)
      [] OTHER -> StrVal("")

\* C21: convert(None, field_type, options) returns, for every field type
\* (its name taken in lower case) and every option set, the documented empty
\* value of the type: an empty array for the six list types, false for
\* yesno, "0" for number, currency and percent, {date: null, include_time:
\* false} for date whatever include_time is passed, "" for any other type.
C21_NullRendering ==
    (Made("convert") /\ call.args.value = None) =>
        call.result = Ok(DocumentedEmpty(Lower(call.args.field_type)))

C21_Witness ==
    /\ Made("convert")
    /\ call.args.value = None
    /\ call.args.field_type = "date"
    /\ "include_time" \in DOMAIN call.args.options
    /\ call.args.options.include_time
    /\ call.result.ok
    /\ Get(call.result.val.items, "include_time") = BoolVal(FALSE)

\* The source fields of the mapping that the row holds.
MappedFields(config, source_record) ==
    {i \in 1..Len(config.field_mappings) : Has(source_record, config.field_mappings[i][1])}

\* C22 as stated: a source field listed in the field mapping and present in
\* the row with a null value appears in the payload with a value that is not
\* a literal null, whichever source resolves it.
C22_NullNeverLiteral ==
    (Made("map_record") /\ call.result.ok) =>
        \A i \in MappedFields(call.args.config, call.args.source_record) :
            LET source_field == call.args.config.field_mappings[i][1]
                smartsuite_field == call.args.config.field_mappings[i][2]
            IN  Get(call.args.source_record, source_field) = None =>
                   /\ Has(call.result.val, smartsuite_field)
                   /\ Get(call.result.val, smartsuite_field) # None

\* C23 as stated: map_record returns a payload for every row and every
\* configuration.
C23_MapNeverRaises == Made("map_record") => call.result.ok

\* What the source chosen for field_name gives for value: the typed rule if
\* there is one, else the legacy transform if there is one (automatic
\* inference when its tag is none of number, choice, date or when it fails),
\* else automatic inference.
Resolved(config, field_name, value) ==
    LET typed == field_name \in DOMAIN config.field_types
        legacy == field_name \in DOMAIN config.transformations
        rule == config.field_types[field_name]
        transform == config.transformations[field_name]
        tag == IF "type" \in DOMAIN transform THEN transform.type ELSE "none"
        transformed ==
            CASE tag = "number" -> to_number(value)
              [] tag = "choice" -> to_single_select(value, ValueMap(transform))
              [] tag = "date" -> to_date(value, transform)
              [] OTHER -> Raise("no transform")
    IN  IF typed
        THEN convert(value, IF "type" \in DOMAIN rule THEN rule.type ELSE "text", rule)
        ELSE IF legacy /\ transformed.ok THEN transformed
        ELSE Ok(_auto_convert(value))

\* C24: when map_record returns, the payload holds exactly the destination
\* names of the mapped source fields present in the row, each with the value
\* of the one source chosen in the order typed rule, legacy transform,
\* automatic inference; when it raises, the typed rule of a present field
\* raised.
C24_Precedence ==
    Made("map_record") =>
        LET config == call.args.config
            source_record == call.args.source_record
            present == MappedFields(config, source_record)
            resolved(i) == Resolved(config, config.field_mappings[i][1],
                                    Get(source_record, config.field_mappings[i][1]))
        IN  IF call.result.ok
            THEN /\ Keys(call.result.val) = {config.field_mappings[i][2] : i \in present}
                 /\ \A i \in present :
                       resolved(i) = Ok(Get(call.result.val, config.field_mappings[i][2]))
            ELSE \E i \in present :
                    /\ config.field_mappings[i][1] \in DOMAIN config.field_types
                    /\ resolved(i) = call.result

\* A value with a typed rule (number) and a legacy transform (choice, with
\* the value in its value-map) was converted by the typed rule, in a row
\* with columns of all three kinds.
C24_Witness ==
    /\ Made("map_record")
    /\ call.args.config = MapperConfig
    /\ call.result.ok
    /\ Has(call.args.source_record, "a")
    /\ Get(call.args.source_record, "a") = IntVal("5")
    /\ Get(call.result.val, "amount") = StrVal("5.0")
    /\ Has(call.result.val, "status")
    /\ Has(call.result.val, "note")
    /\ Has(call.result.val, "flag")

\* The orders in which the items of a dict can have been inserted.
Orders(items) ==
    {[i \in 1..Len(items) |-> items[f[i]]] : f \in Permutations(1..Len(items))}

\* data with the items of every dict in it, at every depth, in reverse order.
RECURSIVE Reversed(_)
Reversed(value) ==
    CASE value.t = "dict" ->
            DictVal([i \in 1..Len(value.items) |->
                        <<value.items[Len(value.items) + 1 - i][1],
                          Reversed(value.items[Len(value.items) + 1 - i][2])>>])
      [] value.t = "list" ->
            ListVal([i \in 1..Len(value.items) |-> Reversed(value.items[i])])
      [] OTHER -> value

\* C25: the fingerprint of the payload mapped from a row is the fingerprint
\* of the payload mapped from the same row with its fields in any other
\* order, and of the same payload with its keys in any other order, at top
\* level and inside date objects and phone entries.
C25_FingerprintDeterminism ==
    (Made("calculate_hash") /\ call.result.ok) =>
        LET config == call.args.config
            mapped_record == map_record(config, call.args.source_record).val
        IN  /\ \A r \in Orders(call.args.source_record) :
                  /\ map_record(config, r).ok
                  /\ calculate_hash(map_record(config, r).val) = call.result.val
            /\ \A data \in Orders(mapped_record) : calculate_hash(data) = call.result.val
            /\ calculate_hash(Reversed(DictVal(mapped_record)).items) = call.result.val

\* The fingerprint of a payload of three keys, one of them a date object.
C25_Witness ==
    /\ Made("calculate_hash")
    /\ call.result.ok
    /\ call.args.config = MapperConfig
    /\ Len(call.args.source_record) = 3
    /\ LET mapped_record == map_record(call.args.config, call.args.source_record).val
       IN  /\ Len(mapped_record) = 3
           /\ \E i \in 1..3 : mapped_record[i][2].t = "dict"
           /\ Reversed(DictVal(mapped_record)).items # mapped_record

\* str(value), and "" for a null.
Stringified(value) == IF value = None THEN "" ELSE PyStr(value)

\* The entry of value_map for text, or text itself.
Substituted(value_map, text) ==
    IF text \in DOMAIN value_map THEN value_map[text] ELSE text

\* C26: to_single_select returns the entry of the value-map for the
\* stringified value when there is one and the stringified value otherwise,
\* and never raises; to_multiple_select returns, for a list, one element per
\* non-null element, in order, each substituted the same way, and for a
\* value that is no list the one element of that value.
C26_ValueMapFallback ==
    /\ Made("to_single_select") =>
          call.result = Ok(StrVal(Substituted(call.args.value_map,
                                              Stringified(call.args.value))))
    /\ Made("to_multiple_select") =>
          LET value == call.args.value
              NotNull(v) == v # None
              kept == IF value.t = "list" THEN SelectSeq(value.items, NotNull)
                      ELSE IF value = None THEN <<>> ELSE <<value>>
          IN  /\ call.result.ok
              /\ call.result.val.t = "list"
              /\ Len(call.result.val.items) = Len(kept)
              /\ \A i \in 1..Len(kept) :
                    call.result.val.items[i] =
                        StrVal(Substituted(call.args.value_map, PyStr(kept[i])))

C26_Witness ==
    /\ Made("to_single_select")
    /\ call.args.value = StrVal("zzz")
    /\ call.args.value_map = StatusMap
    /\ call.result = Ok(StrVal("zzz"))

\* C27: to_date never raises; for a datetime it returns its ISO timestamp
\* with include_time true whatever option is passed; for a date the ISO
\* timestamp of that date at midnight, and for a text the parsed ISO
\* timestamp when the text parses and the text itself otherwise, both with
\* include_time as passed (false when it is not passed).
C27_DatePromotion ==
    Made("to_date") =>
        LET value == call.args.value
            passed == IF "include_time" \in DOMAIN call.args.options
                      THEN call.args.options.include_time ELSE FALSE
            date == Get(call.result.val.items, "date")
            include_time == Get(call.result.val.items, "include_time")
        IN  /\ call.result.ok
            /\ Keys(call.result.val.items) = {"date", "include_time"}
            /\ value.t = "datetime" =>
                  /\ date = StrVal(value.date \o "T" \o value.time)
                  /\ include_time = BoolVal(TRUE)
            /\ value.t = "date" =>
                  /\ date = StrVal(value.date \o "T00:00:00")
                  /\ include_time = BoolVal(passed)
            /\ value.t = "str" =>
                  /\ date = StrVal(IF value.v \in DOMAIN fromisoformat
                                   THEN fromisoformat[value.v] ELSE value.v)
                  /\ include_time = BoolVal(passed)

C27_Witness ==
    /\ Made("to_date")
    /\ call.args.value = ADateTime
    /\ call.args.options = [include_time |-> FALSE]
    /\ call.result.ok
    /\ Get(call.result.val.items, "include_time") = BoolVal(TRUE)

\* C28 as stated: to_phone does not fail on a structured phone value, and
\* the entry it gives has the four keys, an integer phone_type (the integer
\* of a digit-string, the integer given, the default type for any other
\* encoding), the default country when none is given and "" when no
\* extension is given.
C28_PhoneNormalized ==
    (Made("to_phone") /\ call.args.value.t = "dict" /\ call.args.value.items # <<>>) =>
        LET phone_dict == call.args.value
            given == IF Has(phone_dict.items, "phone_type")
                     THEN Get(phone_dict.items, "phone_type")
                     ELSE IF Has(phone_dict.items, "type")
                     THEN Get(phone_dict.items, "type") ELSE None
            entry == call.result.val.items[1].items
        IN  /\ call.result.ok
            /\ Len(call.result.val.items) = 1
            /\ Keys(entry) = {"phone_country", "phone_number", "phone_extension", "phone_type"}
            /\ Get(entry, "phone_type").t = "int"
            /\ (given.t = "str" /\ given.v \in DigitText) =>
                  Get(entry, "phone_type") = IntVal(given.v)
            /\ given.t = "int" => Get(entry, "phone_type") = given
            /\ (given.t = "str" /\ given.v \notin DigitText) =>
                  Get(entry, "phone_type") = DefaultType(call.args.options)
            /\ (~Has(phone_dict.items, "phone_country") /\ ~Has(phone_dict.items, "country")) =>
                  Get(entry, "phone_country") = DefaultCountry(call.args.options)
            /\ (~Has(phone_dict.items, "phone_extension")
                  /\ ~Has(phone_dict.items, "extension")) =>
                  Get(entry, "phone_extension") = StrVal("")

\* The run handled every fetched row once and in the order of the batch: one
\* entry per row, none pending, entry k for the key of row k.
ReconciledInOrder(p) ==
    /\ Len(obs[p].rows) = Len(loc[p].source_records)
    /\ \A k \in Reached(p) :
          /\ Entry(p, k).result \in {"created", "updated", "skipped", "error"}
          /\ LET id == SourceId(ConfigOf(loc[p].config), loc[p].source_records[k])
             IN  id.ok => Entry(p, k).source_id = id.val

\* sync() called by p is over for a run it started.
Over(p) == pc[p] \in {"returned", "raised"} /\ loc[p].run_id # 0

\* Every invocation of sync() comes to its return or its raise.
Terminates == (pc[Caller] # "idle") ~> (pc[Caller] \in {"returned", "raised"})

\* Once sync() is over, the run reconciled every fetched row once and in order
\* and its row has status success, or its row has status failed.
EndsSuccessOrFailed ==
    \A p \in Procs :
        Over(p) =>
            \/ RunRow(p).status = "success" /\ ReconciledInOrder(p)
            \/ RunRow(p).status = "failed"

\* Once sync() is over, the row of the run it started is not running.
NotLeftRunning == \A p \in Procs : Over(p) => RunRow(p).status # "running"

\* C29 as stated: every invocation of sync() terminates; it either reconciles
\* every fetched row exactly once, in the order the source returned them, and
\* ends with status success, or ends with status failed; after sync() has
\* returned or raised, no run row started by that invocation is left in status
\* running.
C29_RunCompletion == Terminates /\ []EndsSuccessOrFailed /\ []NotLeftRunning

\* The file in hand, its definitions, and whether one of them lacks a
\* required key.
FileInHand == call.args.config_data

SomeLacks(config_data) ==
    \E i \in 1..Len(SyncDicts(config_data)) :
        \E path \in RequiredKeys : Lacks(SyncDicts(config_data)[i], path)

\* Nothing has run: the run rows and the destination are as they were before
\* the file was loaded, and sync() was not entered.
NothingRan ==
    /\ Len(sync_runs) = 1
    /\ Len(smartsuite) = 1
    /\ invocations = 0
    /\ \A p \in Procs : pc[p] = "idle"

FinishedRows(p) == {k \in Reached(p) : Entry(p, k).result # "pending"}

SameKey(mappings, m) ==
    {n \in mappings : n.sync_name = m.sync_name /\ n.source_id = m.source_id}

\* Every mapping row points at a record the destination holds, in the table
\* of its sync name, and no two keys point at one record.
MappingsPointAtRecords ==
    \A m \in record_mappings :
        /\ m.smartsuite_record_id \in 1..Len(smartsuite)
        /\ smartsuite[m.smartsuite_record_id].table_id = ConfigOf(m.sync_name).table_id
        /\ \A n \in record_mappings :
              n.smartsuite_record_id = m.smartsuite_record_id => n = m

\* p is at the save that follows its create or its update for the row in
\* hand, that call returned, and m is what the save writes: the key of the
\* row, the identifier the create returned (or the one of the mapping found),
\* and the fingerprint of the payload the call sent, which the destination
\* record now holds.
WrittenAfterSuccess(p, m) ==
    /\ pc[p] \in {"save_created", "save_updated"}
    /\ obs[p].rows # <<>>
    /\ LET e == Last(obs[p])
       IN  /\ m.sync_name = loc[p].config
           /\ m.source_id = e.source_id
           /\ m.data_hash = e.data_hash
           /\ m.data_hash = calculate_hash(smartsuite[m.smartsuite_record_id].data)
           /\ smartsuite[m.smartsuite_record_id].data = loc[p].mapped_record
           /\ IF pc[p] = "save_created"
              THEN /\ e.creates = 1 /\ e.updates = 0
                   /\ m.smartsuite_record_id = e.created_id
                   /\ SameKey(record_mappings, m) = {}
              ELSE /\ e.updates = 1 /\ e.creates = 0
                   /\ m.smartsuite_record_id = e.update_id
                   /\ e.found.found
                   /\ m.smartsuite_record_id = e.found.smartsuite_record_id

\* C32: a mapping is written only after its destination call succeeded.  In
\* every reachable state each mapping row points at a record the destination
\* holds; every step that adds or changes a mapping row is the save that
\* follows a create or an update that returned for that (sync name, source
\* key), and writes the identifier that create returned (the identifier
\* already stored, after an update) with the fingerprint of the payload that
\* call sent; the destination identifier of an existing mapping never
\* changes.
C32_MappingAfterSuccess ==
    /\ []MappingsPointAtRecords
    /\ [][\A m \in record_mappings' \ record_mappings :
             \E p \in Procs : WrittenAfterSuccess(p, m)]_vars
    /\ [][\A m \in record_mappings :
             \E n \in SameKey(record_mappings', m) :
                n.smartsuite_record_id = m.smartsuite_record_id]_vars

\* One run created the record of a key for its first row and updated it for
\* its second: the mapping holds the identifier the create returned and the
\* fingerprint of the payload the update sent.
C32_Witness ==
    \E p \in Procs :
        /\ Len(obs[p].rows) = 2
        /\ Entry(p, 1).result = "created"
        /\ Entry(p, 2).result = "updated"
        /\ \E m \in StoredNow(p, 2) :
              /\ m.smartsuite_record_id = Entry(p, 1).created_id
              /\ m.data_hash = Entry(p, 2).saved_hash
              /\ m.data_hash # Entry(p, 1).saved_hash

\* The destination records no mapping row points at, the record of a create
\* that has just returned and whose mapping is about to be written aside.
Orphans ==
    Len(smartsuite) - Cardinality({m.smartsuite_record_id : m \in record_mappings})
                    - Cardinality({p \in Procs : pc[p] = "save_created"})

\* The step is a successful create_record of p.
CreateReturns(p) == pc[p] = "create_record" /\ pc'[p] = "save_created"

\* The step is a save_record_mapping of p, after its create, that raises.
SaveCreatedFaults(p) ==
    /\ pc[p] = "save_created"
    /\ record_mappings' = record_mappings
    /\ Last(obs'[p]).result = "error"

DestinationFailed(e) == Mutations(e) = 1 /\ e.saves = 0 /\ e.result = "error"

\* The handling of entry e wrote the mapping of its key.
Wrote(e) == e.saves = 1 /\ e.result \in {"created", "updated"}

\* Row k of the run of p is row j of the last run of its sync name, whose
\* destination call raised then, and no row handled since (a later row of
\* that run, an earlier row of this one) wrote the mapping of its key.
FetchedAgain(p, k, j) ==
    /\ loc[p].run_id # 0
    /\ prev[loc[p].config].outcome # "none"
    /\ k \in Reached(p)
    /\ j \in 1..Len(prev[loc[p].config].rows)
    /\ prev[loc[p].config].source_records[j] = loc[p].source_records[k]
    /\ DestinationFailed(prev[loc[p].config].rows[j])
    /\ \A n \in 1..Len(prev[loc[p].config].rows) :
          n > j /\ prev[loc[p].config].rows[n].source_id = Entry(p, k).source_id
              => ~Wrote(prev[loc[p].config].rows[n])
    /\ \A n \in Reached(p) :
          n < k /\ Entry(p, n).source_id = Entry(p, k).source_id => ~Wrote(Entry(p, n))

\* The attempt of the earlier run is made again for entry e: the same branch,
\* and once the row is done the same destination call.
SameAttempt(e, earlier) ==
    /\ e.branch = earlier.branch
    /\ e.branch \in {"create", "update"}
    /\ e.result # "skipped"
    /\ e.result # "pending" => e.creates = earlier.creates /\ e.updates = earlier.updates

EndedFailed(p) ==
    /\ pc[p] = "raised"
    /\ loc[p].run_id # 0
    /\ RunRow(p).status = "failed"

\* The metadata rows of sync_name in metadata.
MetadataOf(metadata, sync_name) == {m \in metadata : m.sync_name = sync_name}

\* C35 as stated: a run whose persisted status is failed has left the
\* metadata row of its sync name as it was when the run was entered, so the
\* next run reads the same last_sync_time.
C35_FailedKeepsBoundary ==
    \A p \in Procs :
        EndedFailed(p) =>
            /\ MetadataOf(sync_metadata, loc[p].config)
                  = MetadataOf(obs[p].metadata_before, loc[p].config)
            /\ get_last_sync_time(sync_metadata, loc[p].config)
                  = get_last_sync_time(obs[p].metadata_before, loc[p].config)

\* The run of p has gone past its call of update_last_sync_time, which
\* returned.
BoundaryWritten(p) ==
    \/ pc[p] = "complete_success"
    \/ pc[p] = "returned" /\ loc[p].source_records # <<>>
    \/ /\ pc[p] \in {"except", "raised"}
       /\ loc[p].source_records # <<>>
       /\ obs[p].fault_at = "complete_sync_run"

\* C36: the boundary advances whatever the rows did.  A run that reaches the
\* end of a non-empty loop reads the clock then (the loop is over, whatever
\* number of rows raised) and calls update_last_sync_time with that reading;
\* once the call has returned the metadata row of the sync name holds it.
\* No step moves the last_sync_time of a sync name backwards.
C36_BoundaryAdvances ==
    /\ [][\A p \in Procs :
            (pc[p] = "read_clock" /\ pc'[p] # "read_clock")
                => /\ pc'[p] = "update_last"
                   /\ loc[p].i > Len(loc[p].source_records)
                   /\ loc[p].source_records # <<>>
                   /\ loc'[p].current_time = now]_vars
    /\ [](\A p \in Procs :
            AfterLoop(p) => pc[p] = "read_clock" \/ loc[p].current_time # NoTime)
    /\ [](\A p \in Procs :
            BoundaryWritten(p)
                => /\ obs[p].metadata_writes = 1
                   /\ get_last_sync_time(sync_metadata, loc[p].config) = loc[p].current_time
                   /\ loc[p].current_time >= RunRow(p).started_at)
    /\ [][\A n \in Names :
            get_last_sync_time(sync_metadata', n) >= get_last_sync_time(sync_metadata, n)]_vars

\* Every row of a batch of two raised, time passed while the loop ran, and
\* the metadata row holds the clock as read after the loop, later than the
\* start of the run.
C36_Witness ==
    \E p \in Procs :
        /\ BoundaryWritten(p)
        /\ loc[p].stats.errors = 2
        /\ loc[p].stats.processed = 0
        /\ get_last_sync_time(sync_metadata, loc[p].config) = 1
        /\ RunRow(p).started_at = 0

\* Rows i and k of the batch of p, in that order, have the same stringified
\* source key, and row i was created: its create and its mapping write
\* returned.
Duplicate(p, i, k) ==
    /\ i \in Reached(p)
    /\ k \in Reached(p)
    /\ i < k
    /\ Entry(p, i).source_id = Entry(p, k).source_id
    /\ Entry(p, i).result = "created"

\* No row before row i has its key.
FirstOfKey(p, i) == \A n \in Reached(p) : n < i => Entry(p, n).source_id # Entry(p, i).source_id

\* The rows of p, of the key of row i, for which create_record was called.
CreatesForKey(p, i) ==
    {n \in Reached(p) : Entry(p, n).source_id = Entry(p, i).source_id /\ Entry(p, n).creates > 0}

\* C37: rows are reconciled in source order, so when two rows of a batch
\* have the same stringified source key and the first was created, the
\* lookup of the second finds the mapping the first wrote (the identifier
\* its create returned): the second takes the skip branch when its payload
\* has the stored fingerprint and the update branch otherwise, never the
\* create branch, and ends skipped or updated unless its own lookup, update
\* or mapping write raises.  create_record is called for no row of that key
\* after the first.
C37_DuplicateKeys ==
    \A p \in Procs : \A i, k \in 1..MaxBatch :
        Duplicate(p, i, k) =>
            /\ \A n \in CreatesForKey(p, i) : n <= i
            /\ Entry(p, k).creates = 0
            /\ Entry(p, k).result # "created"
            /\ LookedUp(Entry(p, k)) =>
                  /\ Entry(p, k).found.found
                  /\ Entry(p, k).found.smartsuite_record_id = Entry(p, i).created_id
                  /\ Entry(p, k).stored # {}
                  /\ Entry(p, k).branch \in {"skipped", "update"}
                  /\ Entry(p, k).branch = "skipped"
                        <=> Entry(p, k).data_hash = Entry(p, k).found.data_hash
                  /\ k = i + 1 => Entry(p, k).found.data_hash = Entry(p, i).saved_hash
                  /\ Entry(p, k).branch = "skipped" => Entry(p, k).result = "skipped"
                  /\ Entry(p, k).branch = "update"
                        => Entry(p, k).result \in {"pending", "updated", "error"}
                  /\ Entry(p, k).result = "error" => faults > 0

\* A batch holds the same row twice: the first was created and the second,
\* finding its mapping, skipped; the destination got one record.
C37_Witness ==
    \E p \in Procs :
        /\ Duplicate(p, 1, 2)
        /\ Entry(p, 2).result = "skipped"
        /\ FirstOfKey(p, 1)
        /\ Cardinality(CreatesForKey(p, 1)) = 1
        /\ Len(smartsuite) = Len(obs[p].smartsuite_before) + 1

====
